---- MODULE Spec2Model ----
(***************************************************************************)
(* Model of the multi-format log parsing pipeline of log_processor.py:     *)
(* format detection, entry splitting, per-format extraction and the        *)
(* process_logs driver.                                                    *)
(*                                                                         *)
(* Text is a sequence of tokens.  A token is either one character or a     *)
(* fixed multi-character lexeme that the regular expressions of the source *)
(* can only match as a whole (a date, a clock time, a word).  Whitespace   *)
(* and every character at which a pattern of the source can start or stop  *)
(* inside a word-like run is a token of its own.                           *)
(***************************************************************************)
EXTENDS Integers, Sequences, FiniteSets, TLC

(***************************************************************************)
(* Lexical classes                                                         *)
(***************************************************************************)
NL == "\n"
SP == " "

\* a run of PadWidth letters 'x' on one line, and what is left of it when cut
PAD == "xxxx~"
PadPart == "xx~"
\* what is left of a structured lexeme that was cut in the middle
Fragment == "#"

DateTokens == {"2024-01-05", "2024-13-45", "0001-01-01"}
TimeTokens == {"10:00:00", "10:00:05", "00:00:00", "23:59:59"}
UpperWords == {"INFO", "ERROR", "FAILED", "DB", "GET"}
DigitTokens == {"1", "2", "5", "7", "29", "31", "123", "200", "404", "503"}
ApacheTsTokens == {"05/Jan/2024:10:00:00", "05/Foo/2024:10:00:00"}
ZoneTokens == {"+0000", "+0100"}
MonthWords == {"Jan", "Feb", "Dec"}
HttpTokens == {"HTTP/1.1"}

IsSpace(t) == t \in {SP, NL, "\t"}
IsDate(t) == t \in DateTokens
IsTime(t) == t \in TimeTokens
IsUpper(t) == t \in UpperWords
IsDigits(t) == t \in DigitTokens

\* number of characters of the run of letters that PAD stands for
PadWidth == 4990

\* number of characters of a token
Width(t) == IF t = PAD THEN PadWidth ELSE Len(t)

\* What remains of a token cut after fewer characters than it has.  A cut
\* token is the last one of the text it is in; no pattern of the source can
\* end in a proper prefix of a lexeme of this alphabet, so the remainder of
\* any token but the run of letters is a piece that belongs to no class.
CutToken(t) == IF t \in {PAD, PadPart} THEN PadPart ELSE Fragment

(***************************************************************************)
(* String primitives on token sequences                                    *)
(***************************************************************************)
Min(S) == CHOOSE x \in S : \A y \in S : x <= y
Max(S) == CHOOSE x \in S : \A y \in S : x >= y

\* s[p..q] as Python slices it (empty when q < p)
Slice(s, p, q) == IF q < p THEN <<>> ELSE SubSeq(s, p, q)

\* first index >= p that holds no whitespace, Len(s)+1 when there is none
SkipWs(s, p) ==
    LET c == {q \in p..Len(s) : ~IsSpace(s[q])}
    IN  IF c = {} THEN Len(s) + 1 ELSE Min(c)

\* first index >= p that holds whitespace, Len(s)+1 when there is none
SkipNonWs(s, p) ==
    LET c == {q \in p..Len(s) : IsSpace(s[q])}
    IN  IF c = {} THEN Len(s) + 1 ELSE Min(c)

\* first index >= p that holds no upper-case word
SkipUpper(s, p) ==
    LET c == {q \in p..Len(s) : ~IsUpper(s[q])}
    IN  IF c = {} THEN Len(s) + 1 ELSE Min(c)

\* first index >= p that holds tok, Len(s)+1 when there is none
Find(s, p, tok) ==
    LET c == {q \in p..Len(s) : s[q] = tok}
    IN  IF c = {} THEN Len(s) + 1 ELSE Min(c)

LineEnd(s, p) == Find(s, p, NL)

\* str.strip()
Strip(s) ==
    LET c == {q \in 1..Len(s) : ~IsSpace(s[q])}
    IN  IF c = {} THEN <<>> ELSE SubSeq(s, Min(c), Max(c))

\* str.split("\n")
RECURSIVE SplitLines(_)
SplitLines(s) ==
    LET e == LineEnd(s, 1)
    IN  IF e > Len(s) THEN <<s>>
        ELSE <<Slice(s, 1, e - 1)>> \o SplitLines(Slice(s, e + 1, Len(s)))

\* number of characters of a text
RECURSIVE CharLen(_)
CharLen(s) == IF s = <<>> THEN 0 ELSE Width(Head(s)) + CharLen(Tail(s))

\* variant: the slice keeps the whole text
TakeChars_whole(s, n) == s

\* s[:n], n counted in characters
RECURSIVE TakeChars(_, _)
TakeChars(s, n) ==
    IF s = <<>> \/ n <= 0 THEN <<>>
    ELSE IF Width(Head(s)) <= n
         THEN <<Head(s)>> \o TakeChars(Tail(s), n - Width(Head(s)))
         ELSE <<CutToken(Head(s))>>

(***************************************************************************)
(* Calendar: datetime of the standard library, proleptic Gregorian         *)
(***************************************************************************)
MonthNames == <<"January", "February", "March", "April", "May", "June", "July",
                "August", "September", "October", "November", "December">>
MonthAbbrs == <<"Jan", "Feb", "Mar", "Apr", "May", "Jun", "Jul", "Aug", "Sep",
                "Oct", "Nov", "Dec">>

IsLeap(y) == (y % 4 = 0) /\ ((y % 100 # 0) \/ (y % 400 = 0))

DaysInMonth(y, m) ==
    IF m = 2 THEN (IF IsLeap(y) THEN 29 ELSE 28)
    ELSE IF m \in {4, 6, 9, 11} THEN 30 ELSE 31

RECURSIVE DaysBeforeMonth(_, _)
DaysBeforeMonth(y, m) ==
    IF m <= 1 THEN 0 ELSE DaysBeforeMonth(y, m - 1) + DaysInMonth(y, m - 1)

\* date.toordinal(): 0001-01-01 is day 1
Ordinal(y, m, d) ==
    LET p == y - 1
    IN  365 * p + (p \div 4) - (p \div 100) + (p \div 400) + DaysBeforeMonth(y, m) + d

EpochOrdinal == Ordinal(1970, 1, 1)

\* a datetime value; aware tells whether it carries a UTC offset (off, in hours)
DateTime(y, mo, d, h, mi, s, aware, off) ==
    [year |-> y, month |-> mo, day |-> d, hour |-> h, minute |-> mi, second |-> s,
     aware |-> aware, off |-> off]

\* the constructor's range check (ValueError otherwise)
ValidDateTime(y, mo, d, h, mi, s) ==
    /\ y \in 1..9999
    /\ mo \in 1..12
    /\ d >= 1 /\ d <= DaysInMonth(y, mo)
    /\ h \in 0..23 /\ mi \in 0..59 /\ s \in 0..59

\* datetime.timestamp() of a naive value (local time, taken as UTC) raises
\* ValueError when the day before the value lies before year 1
TimestampRaises(dt) == ~dt.aware /\ Ordinal(dt.year, dt.month, dt.day) <= 1

\* datetime.timestamp(): seconds since 1970-01-01T00:00:00Z
Timestamp(dt) ==
    (Ordinal(dt.year, dt.month, dt.day) - EpochOrdinal) * 86400
        + dt.hour * 3600 + dt.minute * 60 + dt.second
        - (IF dt.aware THEN dt.off * 3600 ELSE 0)

\* the years a wall-clock reading of the model can fall in
Years == 1970..2037

\* datetime.fromtimestamp(u) in local time: the naive value of instant u
FromTimestamp(u) ==
    LET ord == (u \div 86400) + EpochOrdinal
        sod == u % 86400
        y == CHOOSE yy \in Years :
                 Ordinal(yy, 1, 1) <= ord /\ ord < Ordinal(yy + 1, 1, 1)
        mo == CHOOSE mm \in 1..12 :
                 Ordinal(y, mm, 1) <= ord /\ ord < Ordinal(y, mm, 1) + DaysInMonth(y, mm)
        d == ord - Ordinal(y, mo, 1) + 1
    IN  DateTime(y, mo, d, sod \div 3600, (sod % 3600) \div 60, sod % 60, FALSE, 0)

SecondOfDay(dt) == dt.hour * 3600 + dt.minute * 60 + dt.second

\* variant: a value of an earlier month of the year counts as later
Later_by_month(a, b) == a.month < b.month

\* a > b for two naive datetime values
Later(a, b) ==
    \/ Ordinal(a.year, a.month, a.day) > Ordinal(b.year, b.month, b.day)
    \/ /\ Ordinal(a.year, a.month, a.day) = Ordinal(b.year, b.month, b.day)
       /\ SecondOfDay(a) > SecondOfDay(b)

\* index of an abbreviated month name, 0 when it is none (%b)
MonthIndex(w) ==
    LET c == {i \in 1..12 : MonthAbbrs[i] = w}
    IN  IF c = {} THEN 0 ELSE CHOOSE i \in c : TRUE

\* an optional value: <<>> is None, <<v>> is the value v
None == <<>>
Some(v) == <<v>>

(***************************************************************************)
(* The numbers written in the lexemes                                      *)
(***************************************************************************)
\* <<year, month, day>> of a \d{4}-\d{2}-\d{2} lexeme
DateVal(t) ==
    CASE t = "2024-01-05" -> <<2024, 1, 5>>
      [] t = "2024-13-45" -> <<2024, 13, 45>>
      [] t = "0001-01-01" -> <<1, 1, 1>>

\* <<hour, minute, second>> of a \d{2}:\d{2}:\d{2} lexeme
TimeVal(t) ==
    CASE t = "10:00:00" -> <<10, 0, 0>>
      [] t = "10:00:05" -> <<10, 0, 5>>
      [] t = "00:00:00" -> <<0, 0, 0>>
      [] t = "23:59:59" -> <<23, 59, 59>>

\* <<day, month word, year, hour, minute, second>> of a dd/www/dddd:dd:dd:dd lexeme
ApacheTsVal(t) ==
    CASE t = "05/Jan/2024:10:00:00" -> <<5, "Jan", 2024, 10, 0, 0>>
      [] t = "05/Foo/2024:10:00:00" -> <<5, "Foo", 2024, 10, 0, 0>>

\* hours of a [+-]dddd lexeme
ZoneVal(t) == CASE t = "+0000" -> 0 [] t = "+0100" -> 1

\* value of a \d{1,2} lexeme
DayVal(t) == CASE t = "1" -> 1 [] t = "2" -> 2 [] t = "5" -> 5 [] t = "7" -> 7
               [] t = "29" -> 29 [] t = "31" -> 31

IsDayToken(t) == t \in {"1", "2", "5", "7", "29", "31"}

(***************************************************************************)
(* LOG_FORMATS: the registry, in registration order                        *)
(***************************************************************************)
FormatOrder == <<"standard", "apache", "json", "syslog">>
FormatIds == {FormatOrder[i] : i \in 1..Len(FormatOrder)}

(***************************************************************************)
(* LOG_FORMATS[...]["regex"].match(e): the groups of the match, or None.   *)
(* A group that took no part in the match is the empty text.               *)
(***************************************************************************)
\* end (exclusive) of the longest match, from the newline at x, of
\*   (?:\n\s+(?!\d{4}-\d{2}-\d{2}).*)*
\* \s+ is greedy and gives back one character when the look-ahead fails
RECURSIVE ExcEnd(_, _)
ExcEnd(e, x) ==
    LET n == Len(e)
        w == SkipWs(e, x + 1)
    IN  IF ~(x + 1 <= n /\ e[x] = NL /\ IsSpace(e[x + 1])) THEN x
        ELSE IF w > n THEN n + 1
        ELSE IF ~IsDate(e[w]) THEN ExcEnd(e, LineEnd(e, w))
        ELSE IF w < x + 3 THEN x
        ELSE IF e[w - 1] = NL THEN w - 1
        ELSE ExcEnd(e, LineEnd(e, w - 1))

\* the rest of the standard regex once the level is matched: a is the index
\* after the level, lv1 and lv2 the texts of the groups level1 and level2
StandardAfterLevel(e, q, a, lv1, lv2) ==
    LET n == Len(e)
        b == SkipWs(e, a)
        c == Find(e, b + 1, "]")
        dC == SkipWs(e, c + 1)
        withComp == /\ b > a /\ b <= n /\ e[b] = "["
                    /\ c <= n /\ c > b + 1
                    /\ dC > c + 1 /\ dC <= n
        d == IF withComp THEN dC ELSE b
        me == LineEnd(e, d)
    IN  IF withComp \/ (b > a /\ b <= n)
        THEN Some([timestamp |-> Slice(e, 1, q),
                   level1 |-> lv1,
                   level2 |-> lv2,
                   component |-> IF withComp THEN Slice(e, b + 1, c - 1) ELSE <<>>,
                   message |-> Slice(e, d, me - 1),
                   exception |-> Slice(e, me, ExcEnd(e, me) - 1)])
        ELSE None

\* the standard regex from the level on: q is the index of the clock time, r
\* the index where the level starts
StandardLevel(e, q, r) ==
    LET n == Len(e)
        brEnd == SkipUpper(e, r + 1)
        bareEnd == SkipUpper(e, r)
    IN  IF e[r] = "[" /\ brEnd > r + 1 /\ brEnd <= n /\ e[brEnd] = "]"
        THEN StandardAfterLevel(e, q, brEnd + 1, Slice(e, r + 1, brEnd - 1), <<>>)
        ELSE IF IsUpper(e[r])
        THEN StandardAfterLevel(e, q, bareEnd, <<>>, Slice(e, r, bareEnd - 1))
        ELSE None

\* the standard regex once the date is matched: q is the index after the
\* whitespace that follows the date
StandardTime(e, q) ==
    LET n == Len(e)
        r == SkipWs(e, q + 1)
    IN  IF q > 2 /\ q <= n /\ IsTime(e[q]) /\ r > q + 1 /\ r <= n
        THEN StandardLevel(e, q, r)
        ELSE None

StandardRegexMatch(e) ==
    IF Len(e) >= 1 /\ IsDate(e[1]) THEN StandardTime(e, SkipWs(e, 2)) ELSE None

\* first index >= p that holds no digits
SkipDigits(s, p) ==
    LET c == {q \in p..Len(s) : ~IsDigits(s[q])}
    IN  IF c = {} THEN Len(s) + 1 ELSE Min(c)

\* s holds token t at index p
At(s, p, t) == p >= 1 /\ p <= Len(s) /\ s[p] = t
\* s holds a token of class C at index p
AtIn(s, p, C) == p >= 1 /\ p <= Len(s) /\ s[p] \in C

\* the apache regex after the request: p7 is the index where the status starts
ApacheStatus(e, ip, ts, method, url, p7) ==
    LET s2 == SkipDigits(e, p7)
        p8 == SkipWs(e, s2)
        z2 == IF At(e, p8, "-") THEN p8 + 1 ELSE SkipDigits(e, p8)
    IN  IF s2 > p7 /\ p8 > s2 /\ z2 > p8
        THEN Some([ip |-> ip, timestamp |-> ts, method |-> method, url |-> url,
                   status |-> Slice(e, p7, s2 - 1),
                   size |-> Slice(e, p8, z2 - 1)])
        ELSE None

\* the apache regex after the timestamp: p4 is the index where the request starts
ApacheRequest(e, ip, ts, p4) ==
    LET m2 == SkipUpper(e, p4 + 1)
        p5 == SkipWs(e, m2)
        u2 == SkipNonWs(e, p5)
        p6 == SkipWs(e, u2)
    IN  IF /\ At(e, p4, "\"") /\ m2 > p4 + 1
           /\ p5 > m2 /\ u2 > p5
           /\ p6 > u2 /\ AtIn(e, p6, HttpTokens) /\ At(e, p6 + 1, "\"")
           /\ SkipWs(e, p6 + 2) > p6 + 2
        THEN ApacheStatus(e, ip, ts, Slice(e, p4 + 1, m2 - 1), Slice(e, p5, u2 - 1),
                          SkipWs(e, p6 + 2))
        ELSE None

\* the apache regex after "ip - -": p3 is the index where the timestamp starts
ApacheTime(e, ip, p3) ==
    IF /\ At(e, p3, "[")
       /\ AtIn(e, p3 + 1, ApacheTsTokens)
       /\ p3 + 2 <= Len(e) /\ IsSpace(e[p3 + 2])
       /\ AtIn(e, p3 + 3, ZoneTokens)
       /\ At(e, p3 + 4, "]")
       /\ SkipWs(e, p3 + 5) > p3 + 5
    THEN ApacheRequest(e, ip, Slice(e, p3 + 1, p3 + 3), SkipWs(e, p3 + 5))
    ELSE None

ApacheRegexMatch(e) ==
    LET i1 == SkipNonWs(e, 1)
        p1 == SkipWs(e, i1)
        p2 == SkipWs(e, p1 + 1)
        p3 == SkipWs(e, p2 + 1)
    IN  IF /\ i1 > 1
           /\ p1 > i1 /\ At(e, p1, "-")
           /\ p2 > p1 + 1 /\ At(e, p2, "-")
           /\ p3 > p2 + 1
        THEN ApacheTime(e, Slice(e, 1, i1 - 1), p3)
        ELSE None

\* the process name ends before k, and ":" and whitespace follow
PlainEnd(e, k) == At(e, k, ":") /\ k + 1 <= Len(e) /\ IsSpace(e[k + 1])

\* the process name ends before k, and "[pid]:" and whitespace follow
PidEnd(e, k) ==
    LET j == SkipDigits(e, k + 1)
    IN  /\ At(e, k, "[") /\ j > k + 1 /\ At(e, j, "]") /\ At(e, j + 1, ":")
        /\ j + 2 <= Len(e) /\ IsSpace(e[j + 2])

\* the groups, for the process name e[p..k-1] and the colon at index colon
SyslogGroups(e, r, h, h2, p, k, colon) ==
    LET ms == SkipWs(e, colon + 1)
    IN  Some([timestamp |-> Slice(e, 1, r),
              hostname |-> Slice(e, h, h2 - 1),
              process |-> Slice(e, p, k - 1),
              pid |-> IF colon = k THEN <<>> ELSE Slice(e, k + 1, colon - 2),
              message |-> Slice(e, ms, LineEnd(e, ms) - 1)])

\* the syslog regex from the process name on: \S+ is greedy, so the name is the
\* longest one that lets the rest match; the pid group is tried before ":"
SyslogProcess(e, r, h, h2, p, ends) ==
    IF ends = {} THEN None
    ELSE IF PidEnd(e, Max(ends))
         THEN SyslogGroups(e, r, h, h2, p, Max(ends), SkipDigits(e, Max(ends) + 1) + 1)
         ELSE SyslogGroups(e, r, h, h2, p, Max(ends), Max(ends))

\* the syslog regex after the timestamp: r is the index of the clock time, h
\* the index where the host name starts
SyslogHost(e, r, h) ==
    LET h2 == SkipNonWs(e, h)
        p == SkipWs(e, h2)
        pe == SkipNonWs(e, p)
    IN  IF h > r + 1 /\ h <= Len(e) /\ p > h2 /\ p <= Len(e)
        THEN SyslogProcess(e, r, h, h2, p,
                           {k \in (p + 1)..(pe - 1) : PlainEnd(e, k) \/ PidEnd(e, k)})
        ELSE None

SyslogRegexMatch(e) ==
    LET n == Len(e)
        q == SkipWs(e, 2)
        r == SkipWs(e, q + 1)
    IN  IF /\ AtIn(e, 1, MonthWords)
           /\ q > 2 /\ q <= n /\ IsDayToken(e[q])
           /\ r > q + 1 /\ r <= n /\ IsTime(e[r])
        THEN SyslogHost(e, r, SkipWs(e, r + 1))
        ELSE None

RegexMatch(f, e) ==
    CASE f = "standard" -> StandardRegexMatch(e)
      [] f = "apache" -> ApacheRegexMatch(e)
      [] f = "syslog" -> SyslogRegexMatch(e)

(***************************************************************************)
(* re.split(LOG_FORMATS[...]["entry_split_pattern"], text)                 *)
(***************************************************************************)
\* the look-ahead of the format's entry_split_pattern matches at index p
Boundary(f, s, p) ==
    CASE f = "standard" ->
            /\ IsDate(s[p]) /\ At(s, p + 1, SP) /\ AtIn(s, p + 2, TimeTokens)
      [] f = "apache" ->
            LET q == SkipNonWs(s, p)
            IN  /\ ~IsSpace(s[p])
                /\ At(s, q, SP) /\ At(s, q + 1, "-") /\ At(s, q + 2, SP)
                /\ At(s, q + 3, "-") /\ At(s, q + 4, SP) /\ At(s, q + 5, "[")
                /\ AtIn(s, q + 6, ApacheTsTokens) /\ At(s, q + 7, SP)
                /\ AtIn(s, q + 8, ZoneTokens) /\ At(s, q + 9, "]")
      [] f = "syslog" ->
            LET q == SkipWs(s, p + 1)
                r == SkipWs(s, q + 1)
            IN  /\ s[p] \in MonthWords
                /\ q > p + 1 /\ q <= Len(s) /\ IsDayToken(s[q])
                /\ r > q + 1 /\ AtIn(s, r, TimeTokens)

\* an entry: the text of a piece and the index in the input where it starts
Entry(start, text) == [start |-> start, text |-> text]

\* variant: the split consumes the first token of the boundary it cuts at
RECURSIVE PiecesFrom_consuming(_, _, _)
PiecesFrom_consuming(s, cuts, from) ==
    LET later == {p \in cuts : p > from}
        nxt == Min(later)
        after == {p \in cuts : p > nxt}
        stop == IF after = {} THEN Len(s) ELSE Min(after) - 1
    IN  IF later = {} THEN <<>>
        ELSE <<Entry(nxt + 1, Slice(s, nxt + 1, stop))>> \o PiecesFrom_consuming(s, cuts, nxt)

\* the pieces that start at the cut points > from, in order
RECURSIVE PiecesFrom(_, _, _)
PiecesFrom(s, cuts, from) ==
    LET later == {p \in cuts : p > from}
        nxt == Min(later)
        after == {p \in cuts : p > nxt}
        stop == IF after = {} THEN Len(s) ELSE Min(after) - 1
    IN  IF later = {} THEN <<>>
        ELSE <<Entry(nxt, Slice(s, nxt, stop))>> \o PiecesFrom(s, cuts, nxt)

\* re.split on a zero-width pattern: the text is cut before every index where
\* the pattern matches, and nothing is consumed
ReSplit(f, s) ==
    LET cuts == {p \in 1..Len(s) : Boundary(f, s, p)}
        first == IF cuts = {} THEN Len(s) ELSE Min(cuts) - 1
    IN  <<Entry(1, Slice(s, 1, first))>> \o PiecesFrom(s, cuts, 0)

(***************************************************************************)
(* json.loads on one line.  A member lexeme is one  "key": value  pair.    *)
(***************************************************************************)
JsonMembers ==
    {"\"timestamp\":\"2024-01-05T10:00:00Z\"",
     "\"timestamp\":\"bad\"",
     "\"timestamp\":5",
     "\"time\":\"yesterday\"",
     "\"time\":\"2024-01-05T10:00:00Z\"",
     "\"@timestamp\":\"2024-01-05 10:00:00\"",
     "\"level\":\"error\"",
     "\"level\":\"info\"",
     "\"level\":\"\"",
     "\"level\":5",
     "\"level\":null",
     "\"severity\":\"warn\"",
     "\"log_level\":\"debug\"",
     "\"message\":\"boom\"",
     "\"message\":\"xxxx~\"",
     "\"message\":\"\"",
     "\"message\":7",
     "\"msg\":\"hi\"",
     "\"component\":\"db\"",
     "\"service\":\"api\"",
     "\"logger\":\"L\"",
     "\"host\":\"web1\"",
     "\"raw\":\"zzz\"",
     "\"year\":1999",
     "\"ok\":true",
     "\"n\":1.5",
     "\"nested\":{\"a\":1}",
     "\"lst\":[1]",
     "\"nul\":null",
     "\"error\":\"E\""}

\* the key of a member
JKey(m) ==
    CASE m = "\"timestamp\":\"2024-01-05T10:00:00Z\"" -> "timestamp"
      [] m = "\"timestamp\":\"bad\"" -> "timestamp"
      [] m = "\"timestamp\":5" -> "timestamp"
      [] m = "\"time\":\"yesterday\"" -> "time"
      [] m = "\"time\":\"2024-01-05T10:00:00Z\"" -> "time"
      [] m = "\"@timestamp\":\"2024-01-05 10:00:00\"" -> "@timestamp"
      [] m = "\"level\":\"error\"" -> "level"
      [] m = "\"level\":\"info\"" -> "level"
      [] m = "\"level\":\"\"" -> "level"
      [] m = "\"level\":5" -> "level"
      [] m = "\"level\":null" -> "level"
      [] m = "\"severity\":\"warn\"" -> "severity"
      [] m = "\"log_level\":\"debug\"" -> "log_level"
      [] m = "\"message\":\"boom\"" -> "message"
      [] m = "\"message\":\"xxxx~\"" -> "message"
      [] m = "\"message\":\"\"" -> "message"
      [] m = "\"message\":7" -> "message"
      [] m = "\"msg\":\"hi\"" -> "msg"
      [] m = "\"component\":\"db\"" -> "component"
      [] m = "\"service\":\"api\"" -> "service"
      [] m = "\"logger\":\"L\"" -> "logger"
      [] m = "\"host\":\"web1\"" -> "host"
      [] m = "\"raw\":\"zzz\"" -> "raw"
      [] m = "\"year\":1999" -> "year"
      [] m = "\"ok\":true" -> "ok"
      [] m = "\"n\":1.5" -> "n"
      [] m = "\"nested\":{\"a\":1}" -> "nested"
      [] m = "\"lst\":[1]" -> "lst"
      [] m = "\"nul\":null" -> "nul"
      [] m = "\"error\":\"E\"" -> "error"

\* the Python type of the value
JType(m) ==
    CASE m \in {"\"ok\":true"} -> "bool"
      [] m \in {"\"nested\":{\"a\":1}"} -> "dict"
      [] m \in {"\"n\":1.5"} -> "float"
      [] m \in {"\"timestamp\":5", "\"level\":5", "\"message\":7", "\"year\":1999"} -> "int"
      [] m \in {"\"lst\":[1]"} -> "list"
      [] m \in {"\"level\":null", "\"nul\":null"} -> "null"
      [] OTHER -> "str"

\* the value, as text (empty for "" and for null)
JVal(m) ==
    CASE m = "\"timestamp\":\"2024-01-05T10:00:00Z\"" -> <<"2024-01-05T10:00:00Z">>
      [] m = "\"timestamp\":\"bad\"" -> <<"bad">>
      [] m = "\"timestamp\":5" -> <<"5">>
      [] m = "\"time\":\"yesterday\"" -> <<"yesterday">>
      [] m = "\"time\":\"2024-01-05T10:00:00Z\"" -> <<"2024-01-05T10:00:00Z">>
      [] m = "\"@timestamp\":\"2024-01-05 10:00:00\"" -> <<"2024-01-05 10:00:00">>
      [] m = "\"level\":\"error\"" -> <<"error">>
      [] m = "\"level\":\"info\"" -> <<"info">>
      [] m = "\"level\":\"\"" -> <<>>
      [] m = "\"level\":5" -> <<"5">>
      [] m = "\"level\":null" -> <<>>
      [] m = "\"severity\":\"warn\"" -> <<"warn">>
      [] m = "\"log_level\":\"debug\"" -> <<"debug">>
      [] m = "\"message\":\"boom\"" -> <<"boom">>
      [] m = "\"message\":\"xxxx~\"" -> <<PAD>>
      [] m = "\"message\":\"\"" -> <<>>
      [] m = "\"message\":7" -> <<"7">>
      [] m = "\"msg\":\"hi\"" -> <<"hi">>
      [] m = "\"component\":\"db\"" -> <<"db">>
      [] m = "\"service\":\"api\"" -> <<"api">>
      [] m = "\"logger\":\"L\"" -> <<"L">>
      [] m = "\"host\":\"web1\"" -> <<"web1">>
      [] m = "\"raw\":\"zzz\"" -> <<"zzz">>
      [] m = "\"year\":1999" -> <<"1999">>
      [] m = "\"ok\":true" -> <<"true">>
      [] m = "\"n\":1.5" -> <<"1.5">>
      [] m = "\"nested\":{\"a\":1}" -> <<"{\"a\":1}">>
      [] m = "\"lst\":[1]" -> <<"[1]">>
      [] m = "\"nul\":null" -> <<>>
      [] m = "\"error\":\"E\"" -> <<"E">>

\* a JSON value: typ is the Python type, val its text
JValue(typ, val) == [typ |-> typ, val |-> val]
JStr(val) == JValue("str", val)

NotSpace(t) == ~IsSpace(t)

\* the text is a JSON number
IsJsonNumber(t) ==
    /\ Len(t) >= 1
    /\ \A i \in 1..Len(t) : IsDigits(t[i]) \/ (t[i] = "." /\ i > 1 /\ i < Len(t))
    /\ Cardinality({i \in 1..Len(t) : t[i] = "."}) <= 1

\* json.loads(line): ok says whether the text parses, dict whether the value
\* is an object, members are the object's pairs in the order written
JsonLoads(line) ==
    LET t == SelectSeq(line, NotSpace)
        n == Len(t)
        inner == Slice(t, 2, n - 1)
        isObj == /\ n >= 2 /\ t[1] = "{" /\ t[n] = "}"
                 /\ \/ inner = <<>>
                    \/ /\ Len(inner) % 2 = 1
                       /\ \A i \in 1..Len(inner) :
                            IF i % 2 = 1 THEN inner[i] \in JsonMembers ELSE inner[i] = ","
        members == IF isObj /\ inner # <<>>
                   THEN [i \in 1..((Len(inner) + 1) \div 2) |-> inner[2 * i - 1]]
                   ELSE <<>>
    IN  IF isObj THEN [ok |-> TRUE, dict |-> TRUE, members |-> members]
        ELSE IF IsJsonNumber(line) THEN [ok |-> TRUE, dict |-> FALSE, members |-> <<>>]
        ELSE [ok |-> FALSE, dict |-> FALSE, members |-> <<>>]

\* key in data
HasKey(data, k) == \E i \in 1..Len(data) : JKey(data[i]) = k

\* data.get(k, default): the last pair written for k wins
Get(data, k, default) ==
    IF HasKey(data, k)
    THEN LET i == Max({j \in 1..Len(data) : JKey(data[j]) = k})
         IN  JValue(JType(data[i]), JVal(data[i]))
    ELSE default

\* str.upper() of a word
UpperOf(t) ==
    CASE t = "error" -> "ERROR"
      [] t = "warn" -> "WARN"
      [] t = "info" -> "INFO"
      [] t = "debug" -> "DEBUG"
      [] OTHER -> t

Upper(s) == [i \in 1..Len(s) |-> UpperOf(s[i])]

\* <<year, month, day, hour, minute, second>> of a timestamp value that one of
\* the four layouts of process_json_log parses, None for any other text
JsonTsVal(s) ==
    IF s \in {<<"2024-01-05T10:00:00Z">>, <<"2024-01-05 10:00:00">>}
    THEN Some(<<2024, 1, 5, 10, 0, 0>>) ELSE None

(***************************************************************************)
(* The extractors.  The result of one is                                   *)
(*   Accept(metadata)  the dictionary returned,                            *)
(*   Reject            None returned,                                      *)
(*   Raise             an exception left the function.                     *)
(***************************************************************************)
Accept(md) == [kind |-> "ok", md |-> md]
Reject == [kind |-> "none"]
Raise == [kind |-> "raise"]

\* a or b, on texts
Or(a, b) == IF a # <<>> THEN a ELSE b

\* length of the preview of a message
PreviewLen == 50

\* datetime.isoformat(): the text YYYY-MM-DDTHH:MM:SS, with +HH:00 when aware
IsoFormat(dt) ==
    <<ToString(dt.year), "-", ToString(dt.month), "-", ToString(dt.day), "T",
      ToString(dt.hour), ":", ToString(dt.minute), ":", ToString(dt.second)>>
        \o (IF dt.aware THEN <<"+", ToString(dt.off), ":00">> ELSE <<>>)

\* variant: the day field taken from the month of the parsed time
TimeFields_day_from_month(dt) ==
    [timestamp_iso |-> IsoFormat(dt),
     timestamp_unix |-> Timestamp(dt),
     month |-> <<MonthNames[dt.month]>>,
     year |-> dt.year,
     day |-> dt.month]

\* the fields every extractor derives from the parsed time
TimeFields(dt) ==
    [timestamp_iso |-> IsoFormat(dt),
     timestamp_unix |-> Timestamp(dt),
     month |-> <<MonthNames[dt.month]>>,
     year |-> dt.year,
     day |-> dt.day]

\* datetime.strptime(ts, "%Y-%m-%d %H:%M:%S"), None for ValueError
StrptimeStandard(ts) ==
    LET d == DateVal(ts[1])
        t == TimeVal(ts[Len(ts)])
    IN  IF ValidDateTime(d[1], d[2], d[3], t[1], t[2], t[3])
        THEN Some(DateTime(d[1], d[2], d[3], t[1], t[2], t[3], FALSE, 0))
        ELSE None

\* the dictionary process_standard_log returns for the match and the parsed time
StandardRecord(entry, data, parsed_time, message, exception) ==
    [timestamp |-> data.timestamp,
     level |-> Or(data.level1, Or(data.level2, <<"UNKNOWN">>)),
     component |-> Or(data.component, <<"Unknown">>),
     has_exception |-> exception # <<>>,
     message_preview |-> TakeChars(message, PreviewLen),
     message |-> message,
     exception |-> exception,
     raw |-> Strip(entry)] @@ TimeFields(parsed_time)

\* process_standard_log after the try block: parsed is the result of strptime
StandardParsed(entry, data, parsed) ==
    IF parsed = None THEN Reject
    ELSE IF TimestampRaises(parsed[1]) THEN Raise
    ELSE Accept(StandardRecord(entry, data, parsed[1], Strip(data.message),
                               Strip(data.exception)))

\* process_standard_log after the regex was tried
StandardMatched(entry, match) ==
    IF match = None THEN Reject
    ELSE StandardParsed(entry, match[1], StrptimeStandard(match[1].timestamp))

process_standard_log(entry) == StandardMatched(entry, StandardRegexMatch(Strip(entry)))

\* datetime.strptime(ts, "%d/%b/%Y:%H:%M:%S %z"), None for ValueError
StrptimeApache(ts) ==
    LET v == ApacheTsVal(ts[1])
        mo == MonthIndex(v[2])
    IN  IF mo # 0 /\ ValidDateTime(v[3], mo, v[1], v[4], v[5], v[6])
        THEN Some(DateTime(v[3], mo, v[1], v[4], v[5], v[6], TRUE, ZoneVal(ts[Len(ts)])))
        ELSE None

\* first character of a lexeme made of digits
FirstDigit(t) ==
    CASE t \in {"1", "123"} -> "1"
      [] t \in {"2", "29", "200"} -> "2"
      [] t = "31" -> "3"
      [] t = "404" -> "4"
      [] t \in {"5", "503"} -> "5"
      [] t = "7" -> "7"

\* status_code.startswith(ch)
StartsWith(s, ch) == s # <<>> /\ IsDigits(s[1]) /\ FirstDigit(s[1]) = ch

\* the dictionary process_apache_log returns for the match and the parsed time
ApacheRecord(entry, data, parsed_time, level, message) ==
    [timestamp |-> data.timestamp,
     level |-> level,
     component |-> <<"Apache">>,
     has_exception |-> FALSE,
     message_preview |-> TakeChars(message, PreviewLen),
     message |-> message,
     ip |-> data.ip,
     status |-> data.status,
     size |-> data.size,
     http_method |-> data.method,
     url |-> data.url,
     raw |-> Strip(entry)] @@ TimeFields(parsed_time)

\* variant: only a server error is told apart
StatusLevel_server_only(status_code) ==
    IF StartsWith(status_code, "5") THEN <<"ERROR">> ELSE <<"INFO">>

\* the level for a status code
StatusLevel(status_code) ==
    IF StartsWith(status_code, "5") THEN <<"ERROR">>
    ELSE IF StartsWith(status_code, "4") THEN <<"WARN">>
    ELSE <<"INFO">>

\* process_apache_log after the try block: parsed is the result of strptime
ApacheParsed(entry, data, parsed) ==
    IF parsed = None THEN Reject
    ELSE Accept(ApacheRecord(entry, data, parsed[1], StatusLevel(data.status),
                             data.method \o <<SP>> \o data.url \o <<SP, "-", SP>>
                                 \o data.status))

\* process_apache_log after the regex was tried
ApacheMatched(entry, match) ==
    IF match = None THEN Reject
    ELSE ApacheParsed(entry, match[1], StrptimeApache(match[1].timestamp))

process_apache_log(entry) == ApacheMatched(entry, ApacheRegexMatch(Strip(entry)))

\* the keys of the metadata dictionary before the JSON fields are merged in
CanonicalKeys == {"timestamp", "timestamp_iso", "timestamp_unix", "month", "year", "day",
                  "level", "component", "has_exception", "message_preview", "message",
                  "raw"}

\* variant: every scalar of the object is copied, over the keys already there
RECURSIVE MergeExtras_overwrite(_, _, _)
MergeExtras_overwrite(md, data, i) ==
    IF i > Len(data) THEN md
    ELSE LET k == JKey(data[i])
             v == Get(data, k, JStr(<<>>))
         IN  IF v.typ \in {"str", "int", "float", "bool"}
             THEN MergeExtras_overwrite((k :> v.val) @@ md, data, i + 1)
             ELSE MergeExtras_overwrite(md, data, i + 1)

\* for key, value in data.items(): copy the scalars whose key is not in metadata
RECURSIVE MergeExtras(_, _, _)
MergeExtras(md, data, i) ==
    IF i > Len(data) THEN md
    ELSE LET k == JKey(data[i])
             v == Get(data, k, JStr(<<>>))
         IN  IF k \notin DOMAIN md /\ v.typ \in {"str", "int", "float", "bool"}
             THEN MergeExtras(md @@ (k :> v.val), data, i + 1)
             ELSE MergeExtras(md, data, i + 1)

\* a value is truthy: not None and not empty
Truthy(v) == v.val # <<>> /\ v.typ # "null"

\* the parsed time of process_json_log: the first layout that parses the
\* timestamp, else datetime.now()
JsonParsedTime(timestamp, clock) ==
    LET parsed == IF Truthy(timestamp) /\ timestamp.typ = "str"
                  THEN JsonTsVal(timestamp.val) ELSE None
    IN  IF parsed = None THEN FromTimestamp(clock)
        ELSE DateTime(parsed[1][1], parsed[1][2], parsed[1][3], parsed[1][4], parsed[1][5],
                      parsed[1][6], FALSE, 0)

\* the metadata dictionary before the JSON fields are merged in
JsonRecord(entry, data, timestamp, level, message, component, parsed_time) ==
    [timestamp |-> IF Truthy(timestamp) THEN timestamp.val ELSE IsoFormat(parsed_time),
     level |-> Upper(level.val),
     component |-> component.val,
     has_exception |-> \E k \in {"error", "exception", "stack", "stacktrace"} : HasKey(data, k),
     message_preview |-> IF Truthy(message) THEN TakeChars(message.val, PreviewLen) ELSE <<>>,
     message |-> message.val,
     raw |-> Strip(entry)] @@ TimeFields(parsed_time)

\* Every exception is caught inside process_json_log: .upper() on a level that
\* is no string, slicing a message that is no string, timestamp() out of range.
JsonFields(entry, data, timestamp, level, message, component, parsed_time) ==
    IF level.typ # "str" THEN Reject
    ELSE IF Truthy(message) /\ message.typ # "str" THEN Reject
    ELSE IF TimestampRaises(parsed_time) THEN Reject
    ELSE Accept(MergeExtras(JsonRecord(entry, data, timestamp, level, message, component,
                                       parsed_time), data, 1))

\* variant: severity is asked for before level, msg before message
JsonData_severity_first(entry, data, timestamp, clock) ==
    JsonFields(entry, data, timestamp,
               Get(data, "severity", Get(data, "level", Get(data, "log_level", JStr(<<"UNKNOWN">>)))),
               Get(data, "msg", Get(data, "message", JStr(<<>>))),
               Get(data, "component", Get(data, "service", Get(data, "logger", JStr(<<"Unknown">>)))),
               JsonParsedTime(timestamp, clock))

\* process_json_log once data is a dictionary
JsonData(entry, data, timestamp, clock) ==
    JsonFields(entry, data, timestamp,
               Get(data, "level", Get(data, "severity", Get(data, "log_level", JStr(<<"UNKNOWN">>)))),
               Get(data, "message", Get(data, "msg", JStr(<<>>))),
               Get(data, "component", Get(data, "service", Get(data, "logger", JStr(<<"Unknown">>)))),
               JsonParsedTime(timestamp, clock))

\* process_json_log after json.loads: a malformed line raises inside the try
\* block, and so does .get on a value that is no object
JsonLoaded(entry, loaded, clock) ==
    IF ~loaded.ok \/ ~loaded.dict THEN Reject
    ELSE JsonData(entry, loaded.members,
                  Get(loaded.members, "timestamp",
                      Get(loaded.members, "time", Get(loaded.members, "@timestamp", JStr(<<>>)))),
                  clock)

process_json_log(entry, clock) == JsonLoaded(entry, JsonLoads(Strip(entry)), clock)

\* the message, lower-cased, contains the keyword
ContainsWord(message, words) == \E i \in 1..Len(message) : message[i] \in words
\* the tokens whose lower-case form holds "error", "fatal" or "critical"
ErrorWords ==
    {"ERROR", "error", "fatal", "critical", "Fatal", "terror",
     "\"level\":\"error\"", "\"error\":\"E\""}
\* the tokens whose lower-case form holds "warn"
WarnWords == {"warn", "warning", "WARN", "Warning", "warned", "\"severity\":\"warn\""}

\* datetime.strptime(f"{timestamp} {year}", "%b %d %H:%M:%S %Y"), None for ValueError
StrptimeSyslog(ts, year) ==
    LET mo == MonthIndex(ts[1])
        d == DayVal(ts[SkipWs(ts, 2)])
        t == TimeVal(ts[Len(ts)])
    IN  IF mo # 0 /\ ValidDateTime(year, mo, d, t[1], t[2], t[3])
        THEN Some(DateTime(year, mo, d, t[1], t[2], t[3], FALSE, 0))
        ELSE None

\* the level process_syslog infers from the message
KeywordLevel(message) ==
    IF ContainsWord(message, ErrorWords) THEN <<"ERROR">>
    ELSE IF ContainsWord(message, WarnWords) THEN <<"WARN">>
    ELSE <<"INFO">>

\* the dictionary process_syslog returns for the match and the parsed time
SyslogRecord(entry, data, parsed_time, message) ==
    [timestamp |-> data.timestamp,
     level |-> KeywordLevel(message),
     component |-> data.process,
     process |-> data.process,
     pid |-> data.pid,
     hostname |-> data.hostname,
     has_exception |-> FALSE,
     message_preview |-> TakeChars(message, PreviewLen),
     message |-> message,
     raw |-> Strip(entry)] @@ TimeFields(parsed_time)

\* variant: the time parsed with the current year is kept
SyslogParsedTime_no_rollover(first, again, clock) == first

\* the try block of process_syslog: first is the timestamp parsed with the
\* current year, again with the year before; None when strptime raises
SyslogParsedTime(first, again, clock) ==
    IF first = None THEN None
    ELSE IF Later(first[1], FromTimestamp(clock)) THEN again
    ELSE first

\* process_syslog after the try block
SyslogParsed(entry, data, parsed) ==
    IF parsed = None THEN Reject
    ELSE Accept(SyslogRecord(entry, data, parsed[1], Strip(data.message)))

\* process_syslog after the regex was tried
SyslogMatched(entry, match, current_year, clock) ==
    IF match = None THEN Reject
    ELSE SyslogParsed(entry, match[1],
                      SyslogParsedTime(StrptimeSyslog(match[1].timestamp, current_year),
                                       StrptimeSyslog(match[1].timestamp, current_year - 1),
                                       clock))

process_syslog(entry, clock) ==
    SyslogMatched(entry, SyslogRegexMatch(Strip(entry)), FromTimestamp(clock).year, clock)

\* FORMAT_PROCESSORS[format_id](entry, format_info)
Processor(f, entry, clock) ==
    CASE f = "standard" -> process_standard_log(entry)
      [] f = "apache" -> process_apache_log(entry)
      [] f = "json" -> process_json_log(entry, clock)
      [] f = "syslog" -> process_syslog(entry, clock)

\* Document(page_content=metadata.get("message", entry.strip()), metadata=metadata)
Document(md) == [page_content |-> md.message, metadata |-> md]

\* if metadata: return Document(...); return None
Wrap(r) == IF r.kind = "ok" THEN Accept(Document(r.md)) ELSE r

\* variant: an id that is not registered is added to the registry
RegistryAfterLookup_register(reg, fid) ==
    IF \E i \in 1..Len(reg) : reg[i] = fid THEN reg ELSE Append(reg, fid)

\* LOG_FORMATS and FORMAT_PROCESSORS after parse_log_entry looked the id up:
\* "in", [format_id] and .get(format_id) read the dictionaries and write nothing
RegistryAfterLookup(reg, fid) == reg

\* if format_id not in LOG_FORMATS: format_id = "standard"
EffectiveFormat(fid) == IF fid \notin FormatIds THEN "standard" ELSE fid

\* parse_log_entry(entry, format_id): Accept(document), Reject or Raise
parse_log_entry(entry, fid, clock) == Wrap(Processor(EffectiveFormat(fid), entry, clock))

(***************************************************************************)
(* detect_log_format                                                       *)
(***************************************************************************)
SampleLimit == 5000
SampleLines == 10

\* variant: the whole text is the sample
Sample_whole(content) == content

\* sample = content[:5000] if len(content) > 5000 else content
Sample(content) ==
    IF CharLen(content) > SampleLimit THEN TakeChars(content, SampleLimit) ELSE content

\* sample.strip().startswith("{") and "}" in sample
JsonGuard(sample) ==
    LET st == Strip(sample)
    IN  st # <<>> /\ st[1] = "{" /\ \E i \in 1..Len(sample) : sample[i] = "}"

\* the lines, among the first SampleLines of the sample, that json.loads accepts
JsonScore(sample) ==
    LET lines == SplitLines(Strip(sample))
        head == Slice(lines, 1, IF Len(lines) < SampleLines THEN Len(lines) ELSE SampleLines)
    IN  Cardinality({i \in 1..Len(head) : JsonLoads(Strip(head[i])).ok})

\* the pieces of the split sample that the format's regex matches
RegexScore(f, sample) ==
    LET entries == ReSplit(f, sample)
    IN  Cardinality({i \in 1..Len(entries) : RegexMatch(f, Strip(entries[i].text)) # None})

\* format_scores, as the list of its items in insertion order
RECURSIVE ScoresFrom(_, _)
ScoresFrom(sample, i) ==
    IF i > Len(FormatOrder) THEN <<>>
    ELSE LET f == FormatOrder[i]
             rest == ScoresFrom(sample, i + 1)
         IN  IF f = "json"
             THEN (IF JsonGuard(sample)
                   THEN <<[id |-> f, score |-> JsonScore(sample)]>> \o rest
                   ELSE rest)
             ELSE <<[id |-> f, score |-> RegexScore(f, sample)]>> \o rest

FormatScores(content) == ScoresFrom(Sample(content), 1)

\* variant: the last item of top score
BestFormat_last(scores) ==
    scores[Max({i \in 1..Len(scores) : \A j \in 1..Len(scores) : scores[j].score <= scores[i].score})]

\* max(format_scores.items(), key=lambda x: x[1]): the first item of top score
BestFormat(scores) ==
    scores[Min({i \in 1..Len(scores) : \A j \in 1..Len(scores) : scores[j].score <= scores[i].score})]

\* variant: a default that is no key of LOG_FORMATS
BestOrDefault_generic(best) == IF best.score > 0 THEN best.id ELSE "generic"

\* if best_format[1] > 0: return best_format[0]
BestOrDefault(best) == IF best.score > 0 THEN best.id ELSE "standard"

\* the value returned for the scores
Detected(scores) == IF scores # <<>> THEN BestOrDefault(BestFormat(scores)) ELSE "standard"

detect_log_format(content) == Detected(FormatScores(content))

(***************************************************************************)
(* process_logs                                                            *)
(***************************************************************************)
\* the lines of s, each with the index where it starts; s starts at index start
RECURSIVE LinesFrom(_, _)
LinesFrom(s, start) ==
    LET e == LineEnd(s, 1)
    IN  IF e > Len(s) THEN <<Entry(start, s)>>
        ELSE <<Entry(start, Slice(s, 1, e - 1))>>
                 \o LinesFrom(Slice(s, e + 1, Len(s)), start + e)

\* the candidate entries of the text: content.strip().split("\n") for json,
\* re.split(entry_split_pattern, content) for the formats with a regex
SplitEntries(f, content) ==
    IF f = "json"
    THEN LinesFrom(Strip(content), SkipWs(content, 1))
    ELSE ReSplit(f, content)

\* variant: only "not format_id"
NeedsDetection_empty_only(format_id) == format_id = ""

\* not format_id or format_id not in LOG_FORMATS
NeedsDetection(format_id) == format_id = "" \/ format_id \notin FormatIds

\* variant: documents.insert(0, doc)
AppendDoc_front(docs, doc) == <<doc>> \o docs

\* documents.append(doc)
AppendDoc(docs, doc) == Append(docs, doc)

\* variant: the list outlives the call
NewDocuments_kept(previous) == previous

\* documents = []: the list a call starts with, whatever an earlier call built
NewDocuments(previous) == <<>>

(***************************************************************************)
(* The inputs                                                              *)
(***************************************************************************)
D1 == "2024-01-05"
T1 == "10:00:00"
T2 == "10:00:05"
ATS == "05/Jan/2024:10:00:00"

ApacheLine(ip, ts, zone, status, size) ==
    ip \o <<SP, "-", SP, "-", SP, "[", ts, SP, zone, "]", SP, "\"", "GET", SP, "/a", SP,
            "HTTP/1.1", "\"", SP, status, SP, size>>

\* the log entries a text is made of
Pool ==
    << <<D1, SP, T2, SP, "[", "ERROR", "]", SP, "[", "DB", "]", SP, "fail", NL, SP, "at">>,
       <<"2024-13-45", SP, T1, SP, "INFO", SP, "ok">>,
       <<"junk", SP, PAD, SP, "Connection">>,
       <<D1, SP, T1, SP, "INFO", SP, "retry", SP, D1, SP, T2, SP, "FAILED", SP, "x">>,
       <<"0001-01-01", SP, "00:00:00", SP, "INFO", SP, "ok">>,
       <<D1, SP, T1, SP, "INFO", SP, PAD>>,
       ApacheLine(<<"1", ".", "2">>, ATS, "+0100", "503", "-"),
       <<"{", "\"timestamp\":\"2024-01-05T10:00:00Z\"", ",", "\"level\":\"error\"", ",",
         "\"message\":\"boom\"", "}">>,
       <<"{", "\"severity\":\"warn\"", ",", "\"msg\":\"hi\"", "}">>,
       <<"7", NL, "7", NL, "7", NL, "7", NL, "7", NL, "7", NL, "7", NL, "7", NL, "7", NL, "7">>,
       <<"Dec", SP, "31", SP, "23:59:59", SP, "host", SP, "sshd", ":", SP, "ERROR">>,
       <<"Feb", SP, "29", SP, T1, SP, "host", SP, "sshd", ":", SP, "hi">> >>

\* most entries of a text
MaxEntries == 2
\* most advances of the wall clock
MaxTicks == 1

\* "\n".join(entries)
RECURSIVE Join(_)
Join(es) ==
    IF es = <<>> THEN <<>>
    ELSE IF Len(es) = 1 THEN es[1]
    ELSE es[1] \o <<NL>> \o Join(Tail(es))

Sources == UNION {[1..k -> 1..Len(Pool)] : k \in 0..MaxEntries}

\* the format_id arguments of the callers: omitted, the argument main.py passes, a registered id
FormatArgs == {"", "./chroma_logsN"} \cup FormatIds

\* the wall clock when the first call starts: 2024-12-31 23:59:59
ClockStart == Timestamp(DateTime(2024, 12, 31, 23, 59, 59, FALSE, 0))

VARIABLES
    content,        \* the text of the file
    file_ok,        \* the file can be opened
    format_id,      \* the format_id argument of the call
    source,         \* the pool entries the text was joined from
    now,            \* the wall clock, seconds since the epoch
    ticks,          \* advances of the wall clock so far
    pc,             \* where the call stands
    fmt,            \* format_id after the detection step
    consulted,      \* detect_log_format was called
    format_scores,  \* the scores detect_log_format computed
    entries,        \* the candidate entries
    idx,            \* the next entry of the loop
    documents,      \* the list being built, then returned
    doc_entry,      \* for each document, the index of the entry it was built from
    caught,         \* the except clause of process_logs ran
    outcome,        \* how the call ended for the caller
    run,            \* the number of the call
    prev,           \* the previous call: its argument, format and result
    registry,       \* the keys of LOG_FORMATS and FORMAT_PROCESSORS, in order
    peer            \* the locals of a call of parse_log_entry made by another caller

\* the state of the callers of the pipeline
VARIABLES
    chunks,         \* the texts a chunking caller passes in turn, the whole text first
    results         \* the lists returned by the calls the chunking caller has made

\* the value of a local before its assignment
Unset == "unset"

chunkvars == <<chunks, results>>

\* no chunking caller
ChunksIdle == chunks = <<>> /\ results = <<>>

\* the class attributes of ChromaVectorStore, the attributes of its instance
\* and the locals of the threads that call get_vector_store
VARIABLES
    instance,       \* cls._instance: 0 for None, else the number of the object
    lock,           \* the thread that holds cls._lock, 0 when it is free
    initialized,    \* ChromaVectorStore._initialized
    embedding,      \* self._embedding: 0 when unset, else the number of the object
    vectordb,       \* self._vectordb: 0 when unset, else the number of the Chroma object
    init_runs,      \* the times the body of __init__ was entered
    tpc,            \* where each thread stands
    got,            \* the instance each thread received, 0 before
    handle          \* the database each thread obtained with get_db, 0 before

storevars == <<instance, lock, initialized, embedding, vectordb, init_runs, tpc, got, handle>>

\* the module is imported and no thread has called yet
StoreIdle ==
    /\ instance = 0
    /\ lock = 0
    /\ initialized = FALSE
    /\ embedding = 0
    /\ vectordb = 0
    /\ init_runs = 0
    /\ tpc = <<>>
    /\ got = <<>>
    /\ handle = <<>>

\* the query a user typed and the filters built from it
VARIABLES
    query,            \* the words of the query
    metadata_filter,  \* what build_metadata_filter returned for it
    level_filter      \* what extract_level_from_query returned for it

filtervars == <<query, metadata_filter, level_filter>>

\* no query
FilterIdle == query = <<>> /\ metadata_filter = Unset /\ level_filter = Unset

\* the monitored file, st.session_state and the locals of a callback
VARIABLES
    file,               \* the monitored file: for each byte, text or blank
    truncated,          \* the file was truncated since monitoring started
    monitoring_active,  \* st.session_state.monitoring_active
    last_log_position,  \* st.session_state.last_log_position
    cpc,                \* where the callback stands
    file_size,          \* the local file_size of the callback
    new_content,        \* the local new_content: the indexes of the bytes read
    passed              \* for each byte of the file, the times it was passed to process_logs

tailvars == <<file, truncated, monitoring_active, last_log_position, cpc, file_size,
              new_content, passed>>

\* the value of last_log_position while session_state has no such
\* attribute, and of file_size outside the callback
Absent == 0 - 1

\* no bytes read
NoContent == [from |-> 0, bytes |-> <<>>]

\* an empty file that is not monitored
TailIdle ==
    /\ file = <<>>
    /\ truncated = FALSE
    /\ monitoring_active = FALSE
    /\ last_log_position = Absent
    /\ cpc = "idle"
    /\ file_size = Absent
    /\ new_content = NoContent
    /\ passed = <<>>

\* st.session_state of one browser session and the script run of its chat tab
VARIABLES
    chat_history,        \* st.session_state.chat_history
    pending_user_query,  \* st.session_state.pending_user_query
    awaiting_response,   \* st.session_state.awaiting_response
    user_query,          \* what st.chat_input returned in the run under way
    rpc,                 \* where the script run stands
    submitted,           \* the questions typed so far
    refused              \* the questions the submit step did not accept

chatvars == <<chat_history, pending_user_query, awaiting_response, user_query, rpc, submitted,
              refused>>

\* the session state after the first run of the script, and no run under way
ChatIdle ==
    /\ chat_history = <<>>
    /\ pending_user_query = None
    /\ awaiting_response = FALSE
    /\ user_query = None
    /\ rpc = "idle"
    /\ submitted = 0
    /\ refused = {}

\* the variables outside process_logs and parse_log_entry
ext == <<chunkvars, storevars, filtervars, tailvars, chatvars>>

\* no caller but the one of the call modelled
ExtIdle == ChunksIdle /\ StoreIdle /\ FilterIdle /\ TailIdle /\ ChatIdle

\* what a step of the chunking caller, of a thread of the vector store, of
\* the query layer, of the tailing of the file and of the chat tab leaves
\* alone
outside_chunks == <<storevars, filtervars, tailvars, chatvars>>
outside_store == <<chunkvars, filtervars, tailvars, chatvars>>
outside_filter == <<chunkvars, storevars, tailvars, chatvars>>
outside_tail == <<chunkvars, storevars, filtervars, chatvars>>
outside_chat == <<chunkvars, storevars, filtervars, tailvars>>

vars == <<ext, content, file_ok, format_id, source, now, ticks, pc, fmt, consulted, format_scores,
          entries, idx, documents, doc_entry, caught, outcome, run, prev, registry, peer>>

\* the locals of a call that has not started
Fresh ==
    /\ pc = "open"
    /\ fmt = ""
    /\ consulted = FALSE
    /\ format_scores = <<>>
    /\ entries = <<>>
    /\ idx = 1
    /\ documents = NewDocuments(<<>>)
    /\ doc_entry = NewDocuments(<<>>)
    /\ caught = FALSE
    /\ outcome = "running"

Init ==
    /\ \E src \in Sources :
          /\ source = src
          /\ \/ file_ok = TRUE /\ content = Join([i \in 1..Len(src) |-> Pool[src[i]]])
             \/ file_ok = FALSE /\ src = <<>> /\ content = <<>>
    /\ format_id \in FormatArgs
    /\ now = ClockStart
    /\ ticks = 0
    /\ run = 1
    /\ prev = <<>>
    /\ registry = FormatOrder
    /\ ExtIdle
    /\ peer = <<>>
    /\ Fresh

\* with open(file_path, "r") as file: content = file.read()
OpenFile ==
    /\ pc = "open"
    /\ pc' = IF file_ok THEN "resolve" ELSE "except"
    /\ UNCHANGED <<ext, peer, registry, content, file_ok, format_id, source, now, ticks, fmt, consulted,
                   format_scores, entries, idx, documents, doc_entry, caught, outcome, run, prev>>

\* variant: only the first call detects, a later call returns the default
Detect_first_call_only(scores) ==
    /\ format_scores' = scores
    /\ fmt' = IF run = 1 THEN Detected(scores) ELSE "standard"
    /\ consulted' = TRUE

\* format_id = detect_log_format(content), for the scores it computed
Detect(scores) ==
    /\ format_scores' = scores
    /\ fmt' = Detected(scores)
    /\ consulted' = TRUE

\* if not format_id or format_id not in LOG_FORMATS: format_id = detect_log_format(content)
ResolveFormat ==
    /\ pc = "resolve"
    /\ IF NeedsDetection(format_id)
       THEN Detect(FormatScores(content))
       ELSE /\ format_scores' = <<>>
            /\ fmt' = format_id
            /\ consulted' = FALSE
    /\ pc' = "split"
    /\ UNCHANGED <<ext, peer, registry, content, file_ok, format_id, source, now, ticks, entries, idx, documents,
                   doc_entry, caught, outcome, run, prev>>

\* lines = content.strip().split("\n") / entries = re.split(entry_pattern, content)
Split ==
    /\ pc = "split"
    /\ entries' = SplitEntries(fmt, content)
    /\ idx' = 1
    /\ pc' = "loop"
    /\ UNCHANGED <<ext, peer, registry, content, file_ok, format_id, source, now, ticks, fmt, consulted,
                   format_scores, documents, doc_entry, caught, outcome, run, prev>>

\* the rest of a turn of the loop, for the result r of parse_log_entry
LoopTurn(r) ==
    IF r.kind = "none"
    THEN /\ pc' = "loop"
         /\ UNCHANGED <<ext, documents, doc_entry>>
    ELSE IF r.kind = "raise"
    THEN /\ pc' = "except"
         /\ UNCHANGED <<ext, documents, doc_entry>>
    ELSE /\ pc' = "loop"
         /\ documents' = AppendDoc(documents, r.md)
         /\ doc_entry' = AppendDoc(doc_entry, idx)

\* one turn of the for loop: if entry.strip(): doc = parse_log_entry(...); if doc: append
ProcessEntry ==
    /\ pc = "loop"
    /\ idx <= Len(entries)
    /\ IF Strip(entries[idx].text) = <<>>
       THEN LoopTurn(Reject)
       ELSE LoopTurn(parse_log_entry(entries[idx].text, fmt, now))
    /\ idx' = idx + 1
    /\ registry' = RegistryAfterLookup(registry, fmt)
    /\ UNCHANGED <<ext, peer, content, file_ok, format_id, source, now, ticks, fmt, consulted,
                   format_scores, entries, caught, outcome, run, prev>>

\* the loop is over
LoopEnd ==
    /\ pc = "loop"
    /\ idx > Len(entries)
    /\ pc' = "return"
    /\ UNCHANGED <<ext, peer, registry, content, file_ok, format_id, source, now, ticks, fmt, consulted,
                   format_scores, entries, idx, documents, doc_entry, caught, outcome, run, prev>>

\* variant: the except clause raises again
ExceptClause_reraise(c) == [caught |-> TRUE, pc |-> "done"]

\* except Exception as e: print(...)
ExceptClause(c) == [caught |-> TRUE, pc |-> "return"]

HandleException ==
    /\ pc = "except"
    /\ caught' = ExceptClause(caught).caught
    /\ pc' = ExceptClause(caught).pc
    /\ outcome' = IF ExceptClause(caught).pc = "return" THEN outcome ELSE "exception"
    /\ UNCHANGED <<ext, peer, registry, content, file_ok, format_id, source, now, ticks, fmt, consulted,
                   format_scores, entries, idx, documents, doc_entry, run, prev>>

\* return documents
Return ==
    /\ pc = "return"
    /\ outcome' = "returned"
    /\ pc' = "done"
    /\ UNCHANGED <<ext, peer, registry, content, file_ok, format_id, source, now, ticks, fmt, consulted,
                   format_scores, entries, idx, documents, doc_entry, caught, run, prev>>

\* The wall clock advances by one second.  Only the extractors read the clock,
\* so an advance at any earlier point of a call is an advance before the loop.
Tick ==
    /\ pc = "loop"
    /\ ticks < MaxTicks
    /\ now' = now + 1
    /\ ticks' = ticks + 1
    /\ UNCHANGED <<ext, peer, registry, content, file_ok, format_id, source, pc, fmt, consulted, format_scores,
                   entries, idx, documents, doc_entry, caught, outcome, run, prev>>

\* the caller calls process_logs a second time on the same file: with the same
\* argument, or with the id the first call worked with
CallAgain ==
    /\ pc = "done"
    /\ outcome = "returned"
    /\ run = 1
    /\ prev' = <<[format_id |-> format_id, fmt |-> fmt, consulted |-> consulted,
                  documents |-> documents, now |-> now, caught |-> caught]>>
    /\ run' = run + 1
    /\ \E f \in {format_id, fmt} : format_id' = f
    /\ pc' = "open"
    /\ fmt' = ""
    /\ consulted' = FALSE
    /\ format_scores' = <<>>
    /\ entries' = <<>>
    /\ idx' = 1
    /\ documents' = NewDocuments(documents)
    /\ doc_entry' = NewDocuments(doc_entry)
    /\ caught' = FALSE
    /\ outcome' = "running"
    /\ UNCHANGED <<ext, peer, registry, content, file_ok, source, now, ticks>>

Next ==
    \/ OpenFile
    \/ ResolveFormat
    \/ Split
    \/ ProcessEntry
    \/ LoopEnd
    \/ HandleException
    \/ Return
    \/ Tick
    \/ CallAgain

Spec == Init /\ [][Next]_vars

(***************************************************************************)
(* parse_log_entry called on its own, for one entry and one format_id      *)
(***************************************************************************)
\* the entries handed to parse_log_entry
Samples ==
    << <<D1, SP, T2, SP, "[", "ERROR", "]", SP, "[", "DB", "]", SP, "Connection", SP, "failed",
         SP, NL, SP, SP, "at", SP, "x", NL, "\t", "at", SP, "y">>,
       <<D1, SP, T1, SP, "INFO", SP, "ok">>,
       <<D1, SP, T1, SP, "INFO", SP, "ok", NL, SP, SP, D1, SP, T2, SP, "INFO", SP, "next">>,
       <<D1, SP, T1, SP, "INFO", SP, "ok", NL, SP, D1, SP, T2, SP, "INFO", SP, "next">>,
       <<D1, SP, T1, SP, "ERROR", SP, "fail", NL, NL, "Traceback">>,
       <<D1, SP, T1, SP, "ERROR", SP, "fail", NL, "Traceback">>,
       <<D1, SP, T1, SP, "INFO", SP, "[", "DB", "]">>,
       <<D1, SP, T1, SP, "ok", SP, "here">>,
       <<"0001-01-01", SP, "00:00:00", SP, "INFO", SP, "ok">>,
       <<"junk">>,
       ApacheLine(<<"1", ".", "2">>, ATS, "+0100", "503", "-"),
       ApacheLine(<<"1", ".", "2">>, ATS, "+0000", "404", "5"),
       ApacheLine(<<"1", ".", "2">>, ATS, "+0000", "200", "123"),
       ApacheLine(<<"1", ".", "2">>, ATS, "+0000", "5", "7"),
       ApacheLine(<<"1", ".", "2">>, "05/Foo/2024:10:00:00", "+0000", "200", "5"),
       <<"{", "\"timestamp\":\"2024-01-05T10:00:00Z\"", ",", "\"level\":\"error\"", ",",
         "\"message\":\"boom\"", ",", "\"component\":\"db\"", ",", "\"error\":\"E\"", "}">>,
       <<"{", "\"severity\":\"warn\"", ",", "\"msg\":\"hi\"", ",", "\"service\":\"api\"", "}">>,
       <<"{", "\"log_level\":\"debug\"", ",", "\"logger\":\"L\"", ",",
         "\"@timestamp\":\"2024-01-05 10:00:00\"", "}">>,
       <<"{", "\"severity\":\"warn\"", ",", "\"level\":\"info\"", ",", "\"timestamp\":\"bad\"", ",",
         "\"time\":\"2024-01-05T10:00:00Z\"", ",", "\"logger\":\"L\"", ",", "\"service\":\"api\"",
         "}">>,
       <<"{", "\"msg\":\"hi\"", ",", "\"message\":\"\"", ",", "\"time\":\"yesterday\"", "}">>,
       <<"{", "\"level\":\"info\"", ",", "\"year\":1999", ",", "\"raw\":\"zzz\"", ",",
         "\"ok\":true", ",", "\"n\":1.5", ",", "\"nested\":{\"a\":1}", ",", "\"nul\":null", ",",
         "\"lst\":[1]", ",", "\"host\":\"web1\"", "}">>,
       <<"{", "\"level\":\"\"", "}">>,
       <<"{", "\"level\":5", ",", "\"message\":\"boom\"", "}">>,
       <<"{", "\"level\":null", ",", "\"severity\":\"warn\"", "}">>,
       <<"{", "\"message\":7", "}">>,
       <<"{", "\"timestamp\":5", "}">>,
       <<"{", "}">>,
       <<"{", "\"message\":\"boom\"">>,
       <<"7">>,
       <<"Jan", SP, "1", SP, "00:00:00", SP, "host", SP, "sshd", "[", "123", "]", ":", SP, "hi">>,
       <<"Dec", SP, "31", SP, "23:59:59", SP, "host", SP, "sshd", ":", SP, "ERROR">>,
       <<"Feb", SP, "29", SP, T1, SP, "host", SP, "cron", ":", SP, "disk", SP, "warning">>,
       <<"Jan", SP, "5", SP, T1, SP, "host", SP, "sshd", ":", SP, "hi">>,
       <<D1, SP, T1, SP, "INFO", SP, PAD>>,
       <<D1, SP, T1, SP, "INFO", SP, "Connection", SP, "failed", SP, "Connection", SP, "failed",
         SP, "Connection", SP, "at", SP, "x", SP, "next">>,
       <<"{", "\"message\":\"xxxx~\"", "}">>,
       <<"Jan", SP, "5", SP, T1, SP, "host", SP, "sshd", ":", SP, PAD, SP, "warning">>,
       <<"Jan", SP, "5", SP, T1, SP, "host", SP, "cron", "[", "7", "]", ":", SP, "terror", SP, "warned">>,
       <<"Jan", SP, "5", SP, T1, SP, "host", SP, "cron", ":", SP, "Warning">>,
       <<"Jan", SP, "5", SP, T1, SP, "host", SP, "cron", ":", SP, "Fatal">> >>

\* the format_id arguments of parse_log_entry: the registered ids and one that is not
EntryFormatArgs == FormatIds \cup {"nginx"}

\* the wall clock when parse_log_entry is called: the last second of 2024, the
\* first of 2025, and a day in December, in January and in June
EntryClocks ==
    {ClockStart, ClockStart + 1,
     Timestamp(DateTime(2024, 12, 15, 12, 0, 0, FALSE, 0)),
     Timestamp(DateTime(2024, 1, 15, 12, 0, 0, FALSE, 0)),
     Timestamp(DateTime(2025, 6, 15, 12, 0, 0, FALSE, 0))}

InitEntry ==
    /\ \E i \in 1..Len(Samples) : source = <<i>> /\ content = Samples[i]
    /\ format_id \in EntryFormatArgs
    /\ now \in EntryClocks
    /\ pc = "lookup"
    /\ file_ok = TRUE
    /\ ticks = 0
    /\ fmt = ""
    /\ consulted = FALSE
    /\ format_scores = <<>>
    /\ entries = <<>>
    /\ idx = 1
    /\ documents = <<>>
    /\ doc_entry = <<>>
    /\ caught = FALSE
    /\ outcome = "running"
    /\ run = 1
    /\ prev = <<>>
    /\ registry = FormatOrder
    /\ ExtIdle
    /\ peer = <<>>

\* if format_id not in LOG_FORMATS: format_id = "standard"
\* format_info = LOG_FORMATS[format_id]; processor = FORMAT_PROCESSORS.get(format_id)
LookupProcessor ==
    /\ pc = "lookup"
    /\ fmt' = EffectiveFormat(format_id)
    /\ pc' = "extract"
    /\ registry' = RegistryAfterLookup(registry, format_id)
    /\ UNCHANGED <<ext, peer, content, file_ok, format_id, source, now, ticks, consulted, format_scores,
                   entries, idx, documents, doc_entry, caught, outcome, run, prev>>

\* the end of parse_log_entry for the result r of the processor: the document
\* is returned, None is returned, or the exception reaches the caller
ReturnEntry(r) ==
    /\ documents' = IF r.kind = "ok" THEN <<r.md>> ELSE <<>>
    /\ outcome' = IF r.kind = "raise" THEN "exception" ELSE "returned"

\* metadata = processor(entry, format_info); if metadata: return Document(...); return None
RunProcessor ==
    /\ pc = "extract"
    /\ ReturnEntry(Wrap(Processor(fmt, content, now)))
    /\ pc' = "done"
    /\ UNCHANGED <<ext, peer, registry, content, file_ok, format_id, source, now, ticks, fmt, consulted,
                   format_scores, entries, idx, doc_entry, caught, run, prev>>

NextEntry ==
    \/ LookupProcessor
    \/ RunProcessor

SpecEntry == InitEntry /\ [][NextEntry]_vars

(***************************************************************************)
(* Two callers at once: one runs process_logs on its file, the other       *)
(* parse_log_entry on its entry; their steps interleave in any order       *)
(***************************************************************************)
InitPair ==
    /\ \E src \in Sources :
          /\ \A i \in 1..Len(src) : src[i] \in {1, 5, 9, 11}
          /\ source = src
          /\ \/ file_ok = TRUE /\ content = Join([i \in 1..Len(src) |-> Pool[src[i]]])
             \/ file_ok = FALSE /\ src = <<>> /\ content = <<>>
    /\ format_id \in FormatArgs
    /\ now = ClockStart
    /\ ticks = 0
    /\ run = 1
    /\ prev = <<>>
    /\ registry = FormatOrder
    /\ ExtIdle
    /\ \E i \in {2, 9, 17, 22, 30} : \E f \in {"json", "syslog", "nginx"} :
          peer = [pc |-> "lookup", content |-> Samples[i], format_id |-> f, fmt |-> "",
                  documents |-> <<>>, outcome |-> "running"]
    /\ Fresh

\* the other caller: if format_id not in LOG_FORMATS: format_id = "standard";
\* format_info = LOG_FORMATS[format_id]; processor = FORMAT_PROCESSORS.get(format_id)
PeerLookup ==
    /\ peer.pc = "lookup"
    /\ peer' = [peer EXCEPT
                  !.fmt = IF \E i \in 1..Len(registry) : registry[i] = peer.format_id
                          THEN peer.format_id ELSE "standard",
                  !.pc = "extract"]
    /\ registry' = RegistryAfterLookup(registry, peer.format_id)
    /\ UNCHANGED <<ext, content, file_ok, format_id, source, now, ticks, pc, fmt, consulted,
                   format_scores, entries, idx, documents, doc_entry, caught, outcome, run, prev>>

\* the other caller: metadata = processor(entry, format_info), then the return
PeerRun ==
    /\ peer.pc = "extract"
    /\ LET r == Wrap(Processor(peer.fmt, peer.content, now))
       IN  peer' = [peer EXCEPT
                      !.documents = IF r.kind = "ok" THEN <<r.md>> ELSE <<>>,
                      !.outcome = IF r.kind = "raise" THEN "exception" ELSE "returned",
                      !.pc = "done"]
    /\ UNCHANGED <<ext, registry, content, file_ok, format_id, source, now, ticks, pc, fmt, consulted,
                   format_scores, entries, idx, documents, doc_entry, caught, outcome, run, prev>>

NextPair ==
    \/ OpenFile
    \/ ResolveFormat
    \/ Split
    \/ ProcessEntry
    \/ LoopEnd
    \/ HandleException
    \/ Return
    \/ PeerLookup
    \/ PeerRun

SpecPair == InitPair /\ [][NextPair]_vars

\* the variables of the pipeline; no call of it is under way
pipeline ==
    <<content, file_ok, format_id, source, now, ticks, pc, fmt, consulted, format_scores,
      entries, idx, documents, doc_entry, caught, outcome, run, prev, registry, peer>>

PipelineIdle ==
    /\ content = <<>>
    /\ file_ok = TRUE
    /\ format_id = ""
    /\ source = <<>>
    /\ now = ClockStart
    /\ ticks = 0
    /\ run = 1
    /\ prev = <<>>
    /\ registry = FormatOrder
    /\ peer = <<>>
    /\ Fresh

(***************************************************************************)
(* A caller that passes a text to process_logs whole and then in chunks    *)
(* cut where entries start, as process_new_log_entries does with what is   *)
(* appended to the file it tails.  The wall clock stands still.            *)
(***************************************************************************)
\* the entries of Pool the texts are made of: one of each format, and the
\* standard entry whose timestamp raises in the extractor
ChunkEntries == {1, 5, 7, 8, 11}

\* the entries of a text
MaxChunkEntries == 3

\* process_logs(temp_file, "./chroma_logsN"), and the calls with a registered id
ChunkFormatArgs == {"./chroma_logsN"} \cup FormatIds

\* entries a..b of the text, with the line end that follows them in the text
Piece(es, a, b) ==
    Join([i \in 1..(b - a + 1) |-> Pool[es[a + i - 1]]])
        \o (IF b < Len(es) THEN <<NL>> ELSE <<>>)

\* the chunks of the text from entry a on, for cuts after the entries in cuts
RECURSIVE ChunksFrom(_, _, _)
ChunksFrom(es, cuts, a) ==
    LET later == {c \in cuts : c >= a}
    IN  IF later = {} THEN <<Piece(es, a, Len(es))>>
        ELSE <<Piece(es, a, Min(later))>> \o ChunksFrom(es, cuts, Min(later) + 1)

InitChunks ==
    /\ \E es \in [1..MaxChunkEntries -> ChunkEntries] :
          \E cuts \in (SUBSET (1..(MaxChunkEntries - 1))) \ {{}} :
              /\ source = es
              /\ chunks = <<Piece(es, 1, Len(es))>> \o ChunksFrom(es, cuts, 1)
    /\ content = chunks[1]
    /\ file_ok = TRUE
    /\ format_id \in ChunkFormatArgs
    /\ results = <<>>
    /\ StoreIdle /\ FilterIdle /\ TailIdle /\ ChatIdle
    /\ now = ClockStart
    /\ ticks = 0
    /\ run = 1
    /\ prev = <<>>
    /\ registry = FormatOrder
    /\ peer = <<>>
    /\ Fresh

\* process_logs returned: the caller keeps the list, writes the next chunk to
\* the temporary file and calls again, or stops after the last chunk
NextCall ==
    /\ pc = "done"
    /\ Len(results) < Len(chunks)
    /\ results' = Append(results, [fmt |-> fmt, documents |-> documents, caught |-> caught])
    /\ IF Len(results) + 1 < Len(chunks)
       THEN /\ content' = chunks[Len(results) + 2]
            /\ pc' = "open"
            /\ fmt' = ""
            /\ consulted' = FALSE
            /\ format_scores' = <<>>
            /\ entries' = <<>>
            /\ idx' = 1
            /\ documents' = NewDocuments(documents)
            /\ doc_entry' = NewDocuments(doc_entry)
            /\ caught' = FALSE
            /\ outcome' = "running"
       ELSE /\ pc' = "end"
            /\ UNCHANGED <<content, fmt, consulted, format_scores, entries, idx, documents,
                           doc_entry, caught, outcome>>
    /\ UNCHANGED <<chunks, outside_chunks, peer, registry, file_ok, format_id, source, now, ticks,
                   run, prev>>

NextChunks ==
    \/ OpenFile
    \/ ResolveFormat
    \/ Split
    \/ ProcessEntry
    \/ LoopEnd
    \/ HandleException
    \/ Return
    \/ NextCall

SpecChunks == InitChunks /\ [][NextChunks]_vars

(***************************************************************************)
(* vector_store.py: threads that call get_vector_store() and then get_db() *)
(* on what they received.  A step is one access to a class attribute, to   *)
(* an attribute of the instance or to the lock; the interpreter can switch *)
(* threads between any two of them, and the constructors of the embedding  *)
(* and of the database do input and output.                                *)
(***************************************************************************)
\* the threads that call get_vector_store
MaxCallers == 3
Callers == 1..MaxCallers

InitStore ==
    /\ PipelineIdle
    /\ ChunksIdle /\ FilterIdle /\ TailIdle /\ ChatIdle
    /\ instance = 0
    /\ lock = 0
    /\ initialized = FALSE
    /\ embedding = 0
    /\ vectordb = 0
    /\ init_runs = 0
    /\ tpc = [t \in Callers |-> "idle"]
    /\ got = [t \in Callers |-> 0]
    /\ handle = [t \in Callers |-> 0]

\* get_vector_store(): return ChromaVectorStore()
CallGetVectorStore(t) ==
    /\ tpc[t] = "idle"
    /\ tpc' = [tpc EXCEPT ![t] = "new"]
    /\ UNCHANGED <<pipeline, outside_store, instance, lock, initialized, embedding, vectordb,
                   init_runs, got, handle>>

\* __new__: with cls._lock
AcquireLock(t) ==
    /\ tpc[t] = "new"
    /\ lock = 0
    /\ lock' = t
    /\ tpc' = [tpc EXCEPT ![t] = "new_check"]
    /\ UNCHANGED <<pipeline, outside_store, instance, initialized, embedding, vectordb, init_runs,
                   got, handle>>

\* __new__: if cls._instance is None: cls._instance = super().__new__(cls)
CreateInstance(t) ==
    /\ tpc[t] = "new_check"
    /\ instance' = IF instance = 0 THEN 1 ELSE instance
    /\ tpc' = [tpc EXCEPT ![t] = "new_return"]
    /\ UNCHANGED <<pipeline, outside_store, lock, initialized, embedding, vectordb, init_runs, got,
                   handle>>

\* __new__: return cls._instance, and the lock is released
ReturnInstance(t) ==
    /\ tpc[t] = "new_return"
    /\ got' = [got EXCEPT ![t] = instance]
    /\ lock' = 0
    /\ tpc' = [tpc EXCEPT ![t] = "init"]
    /\ UNCHANGED <<pipeline, outside_store, instance, initialized, embedding, vectordb, init_runs,
                   handle>>

\* __init__: if not self._initialized
CheckInitialized(t) ==
    /\ tpc[t] = "init"
    /\ tpc' = [tpc EXCEPT ![t] = IF initialized THEN "returned" ELSE "embedding"]
    /\ init_runs' = IF initialized THEN init_runs ELSE init_runs + 1
    /\ UNCHANGED <<pipeline, outside_store, instance, lock, initialized, embedding, vectordb, got,
                   handle>>

\* __init__: self._embedding = OllamaEmbeddings(...); self._persist_directory = ...
MakeEmbedding(t) ==
    /\ tpc[t] = "embedding"
    /\ embedding' = embedding + 1
    /\ tpc' = [tpc EXCEPT ![t] = "chroma"]
    /\ UNCHANGED <<pipeline, outside_store, instance, lock, initialized, vectordb, init_runs, got,
                   handle>>

\* __init__: self._vectordb = Chroma(...)
MakeChroma(t) ==
    /\ tpc[t] = "chroma"
    /\ vectordb' = vectordb + 1
    /\ tpc' = [tpc EXCEPT ![t] = "flag"]
    /\ UNCHANGED <<pipeline, outside_store, instance, lock, initialized, embedding, init_runs, got,
                   handle>>

\* __init__: ChromaVectorStore._initialized = True
SetInitialized(t) ==
    /\ tpc[t] = "flag"
    /\ initialized' = TRUE
    /\ tpc' = [tpc EXCEPT ![t] = "returned"]
    /\ UNCHANGED <<pipeline, outside_store, instance, lock, embedding, vectordb, init_runs, got,
                   handle>>

\* get_db(): return self._vectordb
GetDb(t) ==
    /\ tpc[t] = "returned"
    /\ handle' = [handle EXCEPT ![t] = vectordb]
    /\ tpc' = [tpc EXCEPT ![t] = "done"]
    /\ UNCHANGED <<pipeline, outside_store, instance, lock, initialized, embedding, vectordb,
                   init_runs, got>>

NextStore ==
    \/ \E t \in Callers : CallGetVectorStore(t)
    \/ \E t \in Callers : AcquireLock(t)
    \/ \E t \in Callers : CreateInstance(t)
    \/ \E t \in Callers : ReturnInstance(t)
    \/ \E t \in Callers : CheckInitialized(t)
    \/ \E t \in Callers : MakeEmbedding(t)
    \/ \E t \in Callers : MakeChroma(t)
    \/ \E t \in Callers : SetInitialized(t)
    \/ \E t \in Callers : GetDb(t)

SpecStore == InitStore /\ [][NextStore]_vars

(***************************************************************************)
(* main.py: the filters the query layer builds from a query, next to a     *)
(* record an extractor makes of an entry.  A query is a sequence of words; *)
(* a phrase the code looks for as a whole is one word.                     *)
(***************************************************************************)
QueryWords ==
    {"show", "logs", "errors", "warnings", "info", "debug", "exception",
     "last 24 hours", "last week", "last month"}

\* most words of a query
MaxQueryWords == 2

Queries == UNION {[1..k -> QueryWords] : k \in 1..MaxQueryWords}

\* the keywords that the lower-case form of a word holds
HeldBy(w) ==
    CASE w = "errors" -> {"error"}
      [] w = "warnings" -> {"warning", "warn"}
      [] w \in {"info", "debug", "exception", "last 24 hours", "last week", "last month"} -> {w}
      [] OTHER -> {}

\* kw in query.lower()
InQuery(kw, q) == \E i \in 1..Len(q) : kw \in HeldBy(q[i])

\* {"timestamp_unix": {"$gte": gte}}, with {"$lte": lte} when there is one
TimeFilter(gte, lte) == [field |-> "timestamp_unix", gte |-> gte, lte |-> lte]

\* {"level": l}, or the $or of such conditions
LevelFilter(levels) == [field |-> "level", any |-> levels]

\* the first second of the Monday of the week of the instant
WeekStart(clock) == ((clock \div 86400) - (((clock \div 86400) + 3) % 7)) * 86400

build_metadata_filter(q, clock) ==
    IF InQuery("last 24 hours", q) THEN Some(TimeFilter(clock - 24 * 3600, None))
    ELSE IF InQuery("last week", q)
         THEN Some(TimeFilter(WeekStart(clock) - 7 * 86400, Some(WeekStart(clock) - 1)))
    ELSE IF InQuery("last month", q) THEN Some(TimeFilter(clock - 30 * 86400, None))
    ELSE IF InQuery("error", q) THEN Some(LevelFilter({"ERROR"}))
    ELSE IF InQuery("warning", q) THEN Some(LevelFilter({"WARNING"}))
    ELSE IF InQuery("info", q) THEN Some(LevelFilter({"INFO"}))
    ELSE IF InQuery("debug", q) THEN Some(LevelFilter({"DEBUG"}))
    ELSE None

\* log_levels of extract_level_from_query, and level.upper() of each
LogLevels ==
    <<"error", "warn", "warning", "info", "debug", "trace", "exception", "critical", "fatal">>

LevelUpper(l) ==
    CASE l = "error" -> "ERROR"
      [] l = "warn" -> "WARN"
      [] l = "warning" -> "WARNING"
      [] l = "info" -> "INFO"
      [] l = "debug" -> "DEBUG"
      [] l = "trace" -> "TRACE"
      [] l = "exception" -> "EXCEPTION"
      [] l = "critical" -> "CRITICAL"
      [] l = "fatal" -> "FATAL"

\* the pair (level_filter, level_name) extract_level_from_query returns
extract_level_from_query(q) ==
    LET found == {i \in 1..Len(LogLevels) : InQuery(LogLevels[i], q)}
    IN  IF InQuery("exception", q) \/ InQuery("error", q)
        THEN [level_filter |-> Some(LevelFilter({"ERROR", "EXCEPTION"})),
              level_name |-> Some("ERROR/EXCEPTION")]
        ELSE IF found = {} THEN [level_filter |-> None, level_name |-> None]
        ELSE [level_filter |-> Some(LevelFilter({LevelUpper(LogLevels[Min(found)])})),
              level_name |-> Some(LevelUpper(LogLevels[Min(found)]))]

\* the web-access and host-process entries of Samples, with their formats
FilterSamples == {11, 12, 13, 31, 33, 37, 38, 39, 40}
FormatOfSample(i) == IF i \in 11..15 THEN "apache" ELSE "syslog"

\* the wall clock of the query layer: 2025-06-15 12:00:00
FilterClock == Timestamp(DateTime(2025, 6, 15, 12, 0, 0, FALSE, 0))

InitFilter ==
    /\ \E i \in FilterSamples :
          source = <<i>> /\ content = Samples[i] /\ format_id = FormatOfSample(i)
    /\ now = FilterClock
    /\ pc = "lookup"
    /\ file_ok = TRUE
    /\ ticks = 0
    /\ fmt = ""
    /\ consulted = FALSE
    /\ format_scores = <<>>
    /\ entries = <<>>
    /\ idx = 1
    /\ documents = <<>>
    /\ doc_entry = <<>>
    /\ caught = FALSE
    /\ outcome = "running"
    /\ run = 1
    /\ prev = <<>>
    /\ registry = FormatOrder
    /\ peer = <<>>
    /\ ChunksIdle /\ StoreIdle /\ TailIdle /\ ChatIdle
    /\ query \in Queries
    /\ metadata_filter = Unset
    /\ level_filter = Unset

\* metadata_filter = build_metadata_filter(query)
BuildMetadataFilter ==
    /\ metadata_filter = Unset
    /\ metadata_filter' = build_metadata_filter(query, now)
    /\ UNCHANGED <<pipeline, outside_filter, query, level_filter>>

\* level_filter, level_name = extract_level_from_query(query)
ExtractLevelFromQuery ==
    /\ level_filter = Unset
    /\ level_filter' = extract_level_from_query(query).level_filter
    /\ UNCHANGED <<pipeline, outside_filter, query, metadata_filter>>

NextFilter ==
    \/ LookupProcessor
    \/ RunProcessor
    \/ BuildMetadataFilter
    \/ ExtractLevelFromQuery

SpecFilter == InitFilter /\ [][NextFilter]_vars

(***************************************************************************)
(* main.py: the tailing of the monitored file.  Writers append to the file *)
(* or truncate it while the observer thread runs process_new_log_entries;  *)
(* a step of the callback is one access to the file.  The counters and the *)
(* alerts the callback also updates are left out.                          *)
(***************************************************************************)
\* most bytes of the file
MaxBytes == 3

\* what a writer appends once monitoring has started: a byte of text or a blank
ByteKinds == {"text", "blank"}

InitTail ==
    /\ PipelineIdle
    /\ ChunksIdle /\ StoreIdle /\ FilterIdle /\ ChatIdle
    /\ TailIdle

\* a writer appends a byte; "old" is a byte written before monitoring started
AppendByte ==
    /\ Len(file) < MaxBytes
    /\ \E k \in (IF monitoring_active THEN ByteKinds ELSE {"old"}) : file' = Append(file, k)
    /\ passed' = Append(passed, 0)
    /\ UNCHANGED <<pipeline, outside_tail, truncated, monitoring_active, last_log_position, cpc,
                   file_size, new_content>>

\* a writer truncates the file
TruncateFile ==
    /\ monitoring_active
    /\ ~truncated
    /\ file # <<>>
    /\ file' = <<>>
    /\ passed' = <<>>
    /\ truncated' = TRUE
    /\ UNCHANGED <<pipeline, outside_tail, monitoring_active, last_log_position, cpc, file_size,
                   new_content>>

\* start_log_monitoring: last_log_position = os.path.getsize(...), the
\* observer is started, monitoring_active = True
StartMonitoring ==
    /\ ~monitoring_active
    /\ last_log_position' = Len(file)
    /\ monitoring_active' = TRUE
    /\ UNCHANGED <<pipeline, outside_tail, file, truncated, cpc, file_size, new_content, passed>>

\* on_modified calls process_new_log_entries: file_size = os.path.getsize(...)
OnModified ==
    /\ monitoring_active
    /\ cpc = "idle"
    /\ file_size' = Len(file)
    /\ cpc' = "check"
    /\ UNCHANGED <<pipeline, outside_tail, file, truncated, monitoring_active, last_log_position,
                   new_content, passed>>

\* the position the callback goes on with: 0 when the file is shorter than it
PositionFor(size, position) == IF size < position THEN 0 ELSE position

\* if hasattr(...): if file_size < last_log_position: last_log_position = 0;
\* if file_size == last_log_position: return; else: first run, save the size
CheckPosition ==
    /\ cpc = "check"
    /\ IF last_log_position = Absent
       THEN last_log_position' = file_size /\ cpc' = "idle"
       ELSE /\ last_log_position' = PositionFor(file_size, last_log_position)
            /\ cpc' = IF file_size = PositionFor(file_size, last_log_position)
                      THEN "idle" ELSE "read"
    /\ UNCHANGED <<pipeline, outside_tail, file, truncated, monitoring_active, file_size,
                   new_content, passed>>

\* f.seek(position); new_content = f.read(): all up to the end of the file
BytesRead(f, position) == Slice(f, position + 1, Len(f))

ReadNew ==
    /\ cpc = "read"
    /\ new_content' = [from |-> last_log_position,
                       bytes |-> BytesRead(file, last_log_position)]
    /\ cpc' = "process"
    /\ UNCHANGED <<pipeline, outside_tail, file, truncated, monitoring_active, last_log_position,
                   file_size, passed>>

\* if new_content.strip(): the bytes are written to the temporary file and
\* passed to process_logs; then last_log_position = file_size
HandleNew ==
    /\ cpc = "process"
    /\ passed' = [i \in 1..Len(passed) |->
                    IF /\ \E j \in 1..Len(new_content.bytes) : new_content.bytes[j] # "blank"
                       /\ new_content.from < i /\ i <= new_content.from + Len(new_content.bytes)
                    THEN passed[i] + 1 ELSE passed[i]]
    /\ last_log_position' = file_size
    /\ cpc' = "idle"
    /\ file_size' = Absent
    /\ new_content' = NoContent
    /\ UNCHANGED <<pipeline, outside_tail, file, truncated, monitoring_active>>

NextTail ==
    \/ AppendByte
    \/ TruncateFile
    \/ StartMonitoring
    \/ OnModified
    \/ CheckPosition
    \/ ReadNew
    \/ HandleNew

SpecTail == InitTail /\ [][NextTail]_vars

(***************************************************************************)
(* main.py: the chat tab.  Streamlit runs the script from the top for      *)
(* every interaction of the user and after st.rerun(); st.rerun() and an   *)
(* exception end the run where they occur.  A question is a pair of the    *)
(* kind of its text and its number.                                        *)
(***************************************************************************)
\* most questions typed
MaxQuestions == 3

\* the kinds of text: one that database_error_pattern matches, any other
QuestionKinds == {"database", "other"}

UserMessage(q) == [role |-> "user", content |-> q]
AssistantMessage(q) == [role |-> "assistant", content |-> q]

InitChat ==
    /\ PipelineIdle
    /\ ChunksIdle /\ StoreIdle /\ FilterIdle /\ TailIdle
    /\ ChatIdle

\* the user types a question, or interacts otherwise, or st.rerun() was
\* called: the script runs, and st.chat_input returns the question or None
StartRun ==
    /\ rpc = "idle"
    /\ \/ /\ submitted < MaxQuestions
          /\ \E k \in QuestionKinds : user_query' = Some(<<k, submitted + 1>>)
          /\ submitted' = submitted + 1
       \/ /\ user_query' = None
          /\ UNCHANGED submitted
    /\ rpc' = "submit"
    /\ UNCHANGED <<pipeline, outside_chat, chat_history, pending_user_query, awaiting_response,
                   refused>>

\* variant: a question is accepted whether or not one is awaiting its answer
Accepted_always(q, awaiting) == q # None

\* if user_query and not st.session_state.awaiting_response
Accepted(q, awaiting) == q # None /\ ~awaiting

\* step 1: the question is appended, kept as pending, and the script reruns
SubmitStep ==
    /\ rpc = "submit"
    /\ IF Accepted(user_query, awaiting_response)
       THEN /\ chat_history' = Append(chat_history, UserMessage(user_query[1]))
            /\ pending_user_query' = user_query
            /\ awaiting_response' = TRUE
            /\ rpc' = "idle"
            /\ user_query' = None
            /\ UNCHANGED refused
       ELSE /\ rpc' = "answer"
            /\ refused' = IF user_query # None THEN refused \cup {user_query[1]} ELSE refused
            /\ UNCHANGED <<chat_history, pending_user_query, awaiting_response, user_query>>
    /\ UNCHANGED <<pipeline, outside_chat, submitted>>

\* step 2: if awaiting_response and pending_user_query; else the run is over
AnswerStep ==
    /\ rpc = "answer"
    /\ rpc' = IF awaiting_response /\ pending_user_query # None THEN "processing" ELSE "idle"
    /\ user_query' = IF awaiting_response /\ pending_user_query # None THEN user_query ELSE None
    /\ UNCHANGED <<pipeline, outside_chat, chat_history, pending_user_query, awaiting_response,
                   submitted, refused>>

\* the answer is appended, the state is reset, st.rerun()
Answered ==
    /\ chat_history' = Append(chat_history, AssistantMessage(pending_user_query[1]))
    /\ awaiting_response' = FALSE
    /\ pending_user_query' = None
    /\ rpc' = "idle"
    /\ user_query' = None

\* the branch of a database error count query
DatabaseCountAnswer ==
    /\ rpc = "processing"
    /\ pending_user_query[1][1] = "database"
    /\ Answered
    /\ UNCHANGED <<pipeline, outside_chat, submitted, refused>>

\* the branches of every other query
OtherAnswer ==
    /\ rpc = "processing"
    /\ pending_user_query[1][1] # "database"
    /\ Answered
    /\ UNCHANGED <<pipeline, outside_chat, submitted, refused>>

\* the database or the model raises, or the run is stopped for a new one,
\* before the answer is appended
AnswerFails ==
    /\ rpc = "processing"
    /\ rpc' = "idle"
    /\ user_query' = None
    /\ UNCHANGED <<pipeline, outside_chat, chat_history, pending_user_query, awaiting_response,
                   submitted, refused>>

NextChat ==
    \/ StartRun
    \/ SubmitStep
    \/ AnswerStep
    \/ DatabaseCountAnswer
    \/ OtherAnswer
    \/ AnswerFails

SpecChat == InitChat /\ [][NextChat]_vars

(***************************************************************************)
(* The properties                                                          *)
(***************************************************************************)

\* the entries the input was written as: its lines for the line-split format,
\* the joined log entries for a format with a boundary pattern
SourceEntries(f) ==
    IF f = "json" THEN SplitLines(content)
    ELSE [i \in 1..Len(source) |-> Pool[source[i]]]

\* the time the grammar of format f reads from the start of entry e, None when
\* the structure does not match or the timestamp does not parse; year is the
\* year a host-process timestamp is completed with
EntryTime(f, e, year) ==
    CASE f = "standard" ->
             LET m == StandardRegexMatch(e)
             IN  IF m = None THEN None ELSE StrptimeStandard(m[1].timestamp)
      [] f = "apache" ->
             LET m == ApacheRegexMatch(e)
             IN  IF m = None THEN None ELSE StrptimeApache(m[1].timestamp)
      [] f = "syslog" ->
             LET m == SyslogRegexMatch(e)
             IN  IF m = None THEN None ELSE StrptimeSyslog(m[1].timestamp, year)

\* entry p is well-formed for format f: its structure matches and its
\* timestamp parses (for a host-process entry, in year y or the year before)
WellFormed(f, p, y) ==
    CASE f = "json" -> JsonLoads(Strip(p)).ok /\ JsonLoads(Strip(p)).dict
      [] f = "syslog" -> \/ EntryTime(f, Strip(p), y) # None
                         \/ EntryTime(f, Strip(p), y - 1) # None
      [] OTHER -> EntryTime(f, Strip(p), y) # None

\* the number of well-formed entries among es
CountWellFormed(f, es, y) ==
    Cardinality({i \in 1..Len(es) : WellFormed(f, es[i], y)})

\* the number of well-formed entries of the input, judged at the current time
WellFormedCount(f) ==
    CountWellFormed(f, SourceEntries(f), IF f = "syslog" THEN FromTimestamp(now).year ELSE 0)

\* C1: for a mix of well-formed and malformed entries process_logs returns
\* exactly one record per well-formed entry and none for a malformed one; a
\* malformed entry never aborts the batch and every entry after it is processed
C1_OneRecordPerWellFormedEntry ==
    (pc = "done" /\ file_ok) =>
        /\ idx > Len(entries)
        /\ Len(documents) = WellFormedCount(fmt)

\* C2: on empty input, or on input no entry of which is accepted, process_logs
\* returns an empty list, and no failure inside detection, splitting or
\* extraction reaches the caller as an exception
C2_EmptyResultNoException ==
    /\ outcome # "exception"
    /\ (pc = "done" /\ (content = <<>> \/ WellFormedCount(fmt) = 0)) =>
           (outcome = "returned" /\ documents = <<>>)

\* a failure was raised during the call, and the caller got the empty list
C2_Witness ==
    pc = "done" /\ caught /\ content # <<>> /\ outcome = "returned" /\ documents = <<>>

\* C3: the records returned are in the order of their source entries: a record
\* that precedes another was built from an entry that starts earlier in the
\* text, and no entry yields two records
C3_RecordsInEntryOrder ==
    pc = "done" =>
        /\ Len(doc_entry) = Len(documents)
        /\ \A i \in 1..Len(documents) :
               /\ doc_entry[i] \in 1..Len(entries)
               /\ documents[i].metadata.raw = Strip(entries[doc_entry[i]].text)
        /\ \A i, j \in 1..Len(documents) :
               i < j => entries[doc_entry[i]].start < entries[doc_entry[j]].start

\* two records were built from a text split at its boundary pattern
C3_Witness == pc = "done" /\ fmt = "standard" /\ Len(documents) = 2

\* the UTC offset, in hours, an ISO text ends with; 0 when it has none
ZoneHours(iso) ==
    IF Len(iso) > 11 THEN CHOOSE h \in 0..23 : ToString(h) = iso[13] ELSE 0

\* the number of the month with the given full name
MonthNumber(name) == CHOOSE m \in 1..12 : <<MonthNames[m]>> = name

\* the first second, local time, of the calendar day year/month/day
DayStart(year, month, day) ==
    (Ordinal(year, MonthNumber(month), day) - EpochOrdinal) * 86400

\* local is an instant of the calendar day that starts at second start
OnDay(local, start) == start <= local /\ local < start + 86400

\* C4: every record has a timestamp_unix and a timestamp_iso, its year, month
\* and day are the calendar fields of that instant, and a record is built
\* only from an entry whose timestamp could be assigned
C4_TimestampFields ==
    pc = "done" =>
        \A i \in 1..Len(documents) :
            LET md == documents[i].metadata
            IN  /\ md.timestamp_unix \in Int
                /\ md.timestamp_iso # <<>>
                /\ OnDay(md.timestamp_unix + ZoneHours(md.timestamp_iso) * 3600,
                         DayStart(md.year, md.month, md.day))
                /\ md.timestamp_iso[1] = ToString(md.year)
                /\ md.timestamp_iso[3] = ToString(MonthNumber(md.month))
                /\ md.timestamp_iso[5] = ToString(md.day)
                /\ fmt # "json" =>
                       EntryTime(fmt, Strip(entries[doc_entry[i]].text), md.year) # None

\* a record whose timestamp carries a UTC offset
C4_Witness ==
    /\ pc = "done"
    /\ documents # <<>>
    /\ fmt = "apache"
    /\ ZoneHours(documents[1].metadata.timestamp_iso) = 1

\* C5 (as stated): two successive runs on the same text with the same format
\* id return identical record sequences, field for field
C5_RunsIdentical ==
    (pc = "done" /\ run = 2 /\ format_id = prev[1].format_id) =>
        documents = prev[1].documents

\* C5 (amended): the two runs return identical record sequences when the
\* format is standard or apache, or when the wall clock reads the same during
\* both runs; the json and syslog extractors read the current time
C5_RunsIdenticalUnderSameClock ==
    (/\ pc = "done" /\ run = 2 /\ format_id = prev[1].format_id
     /\ (fmt \in {"standard", "apache"} \/ ticks = 0)) =>
        documents = prev[1].documents

\* the second run of a format that does not read the clock, after the clock moved
C5_Witness ==
    /\ pc = "done" /\ run = 2 /\ format_id = prev[1].format_id
    /\ fmt \in {"standard", "apache"}
    /\ ticks > 0
    /\ now > prev[1].now
    /\ documents # <<>>

\* the entries that are not blank
NonBlank(es) == SelectSeq(es, LAMBDA e : Strip(e.text) # <<>>)

\* C6: the newline-joined concatenation of n valid generic-timestamped entries
\* is split into exactly n non-blank fragments, the i-th equal to the i-th
\* entry modulo trimming, whatever the messages contain
C6_SplitAtLineStarts ==
    (/\ pc = "loop" /\ idx = 1 /\ fmt = "standard" /\ source # <<>>
     /\ \A i \in 1..Len(source) : EntryTime("standard", Pool[source[i]], 0) # None) =>
        /\ Len(NonBlank(entries)) = Len(source)
        /\ \A i \in 1..Len(source) :
               Strip(NonBlank(entries)[i].text) = Strip(Pool[source[i]])

\* the first token of a line
FirstToken(p) == Slice(p, 1, SkipNonWs(p, 1) - 1)

\* C7: for a well-formed web-access line processed with format apache, raw is
\* the full trimmed line and ip is the complete first token of the line
C7_RawIsWholeEntry ==
    (/\ pc = "done" /\ fmt = "apache" /\ source # <<>>
     /\ \A i \in 1..Len(source) : EntryTime("apache", Pool[source[i]], 0) # None) =>
        /\ Len(documents) = Len(source)
        /\ \A i \in 1..Len(source) :
               /\ documents[i].metadata.raw = Strip(Pool[source[i]])
               /\ documents[i].metadata.ip = FirstToken(Pool[source[i]])

\* C8: detect_log_format returns a key of LOG_FORMATS for every text, and
\* "standard" whenever every score is zero
C8_DetectTotal ==
    (pc = "split" /\ consulted) =>
        /\ fmt \in FormatIds
        /\ (\A i \in 1..Len(format_scores) : format_scores[i].score = 0) => fmt = "standard"

\* detection ran on a text that matches no grammar
C8_Witness ==
    /\ pc = "split" /\ consulted /\ content # <<>>
    /\ \A i \in 1..Len(format_scores) : format_scores[i].score = 0
    /\ fmt = "standard"

\* the first SampleLines lines of the stripped sample
HeadLines(sample) ==
    Slice(SplitLines(Strip(sample)), 1, Min({SampleLines, Len(SplitLines(Strip(sample)))}))

\* the lines among head that parse as structured records (objects)
CountRecords(head) ==
    Cardinality({i \in 1..Len(head) :
                    JsonLoads(Strip(head[i])).ok /\ JsonLoads(Strip(head[i])).dict})

\* the lines among head that parse as a JSON value of any type
CountValues(head) == Cardinality({i \in 1..Len(head) : JsonLoads(Strip(head[i])).ok})

\* the score C9 states: for json the number of the first lines that parse as
\* structured records, for a pattern grammar the number of matching fragments
StatedScore(f, sample) ==
    IF f = "json" THEN CountRecords(HeadLines(sample)) ELSE RegexScore(f, sample)

\* the stripped sample starts with "{" and the sample holds a "}"
LooksLikeObject(sample) ==
    /\ Strip(sample) # <<>>
    /\ Strip(sample)[1] = "{"
    /\ \E i \in 1..Len(sample) : sample[i] = "}"

\* the score of the code: json is scored only for a sample that looks like an
\* object, by the first lines that parse as a JSON value of any type
GuardedScore(f, sample) ==
    IF f = "json"
    THEN (IF LooksLikeObject(sample) THEN CountValues(HeadLines(sample)) ELSE 0)
    ELSE RegexScore(f, sample)

\* the first registered format whose score in sc is the highest
FirstOfTop(sc) ==
    FormatOrder[Min({i \in 1..Len(FormatOrder) :
                        \A j \in 1..Len(FormatOrder) : sc[FormatOrder[j]] <= sc[FormatOrder[i]]})]

\* the top score is not zero
TopNotZero(sc) == \E f \in FormatIds : sc[f] > 0

\* C9 (as stated): the detector returns the format of highest score, the json
\* score being the number of the first 10 sample lines that parse as
\* structured records; the first registered format wins a tie
C9_HighestStatedScore ==
    (pc = "split" /\ consulted) =>
        LET sc == [f \in FormatIds |-> StatedScore(f, Sample(content))]
        IN  TopNotZero(sc) => fmt = FirstOfTop(sc)

\* the ids the code scores for the sample, in registration order
ScoredIds(sample) ==
    SelectSeq(FormatOrder, LAMBDA f : f # "json" \/ LooksLikeObject(sample))

\* the id of the first item of scores whose score is the highest
FirstTopId(scores) ==
    scores[Min({i \in 1..Len(scores) :
                   \A j \in 1..Len(scores) : scores[j].score <= scores[i].score})].id

\* C9 (amended): the same, but json gets a score only when the stripped sample
\* starts with "{" and the sample holds a "}", and the score then counts the
\* first 10 lines that parse as a JSON value of any type
C9_HighestGuardedScore ==
    (pc = "split" /\ consulted) =>
        /\ [i \in 1..Len(format_scores) |-> format_scores[i].id] = ScoredIds(Sample(content))
        /\ \A i \in 1..Len(format_scores) :
               format_scores[i].score = GuardedScore(format_scores[i].id, Sample(content))
        /\ (\E i \in 1..Len(format_scores) : format_scores[i].score > 0) =>
               fmt = FirstTopId(format_scores)

\* json and a pattern format share the top score, which is not zero
C9_Witness ==
    /\ pc = "split" /\ consulted
    /\ \E i, j \in 1..Len(format_scores) :
           /\ i < j
           /\ "json" \in {format_scores[i].id, format_scores[j].id}
           /\ format_scores[i].score = format_scores[j].score
           /\ format_scores[i].score > 0
           /\ \A k \in 1..Len(format_scores) : format_scores[k].score <= format_scores[i].score
           /\ fmt = format_scores[i].id

\* C10: with format_id omitted or not registered, process_logs detects the
\* format on the whole text and works with it, and the result is that of a
\* call with the detected id (the clock unchanged); with a registered
\* format_id the detector is not consulted and the given format is used
C10_DetectOnlyWhenNeeded ==
    /\ pc = "split" =>
           IF format_id = "" \/ format_id \notin FormatIds
           THEN consulted /\ fmt = detect_log_format(content)
           ELSE ~consulted /\ fmt = format_id
    /\ (/\ pc = "done" /\ run = 2 /\ prev[1].consulted /\ format_id = prev[1].fmt
        /\ ticks = 0) =>
           (~consulted /\ fmt = prev[1].fmt /\ documents = prev[1].documents)

\* a call with the argument main.py passes, then a call with the detected id
C10_Witness ==
    /\ pc = "done" /\ run = 2 /\ ticks = 0
    /\ prev[1].consulted /\ prev[1].format_id = "./chroma_logsN"
    /\ format_id = prev[1].fmt
    /\ ~consulted
    /\ documents # <<>>

(***************************************************************************)
(* Properties of parse_log_entry, stated on SpecEntry                      *)
(***************************************************************************)
\* parse_log_entry has returned a document
Emitted == pc = "done" /\ documents # <<>>

\* the metadata of the document returned
Record == documents[1].metadata

\* C11: parse_log_entry with a format id that is not registered ends with the
\* UnknownFormat outcome: no grammar is looked up for the entry, no record is
\* made of it, and the call does not return normally
C11_UnknownFormatFails ==
    (format_id \notin FormatIds /\ pc # "lookup") =>
        /\ fmt \notin FormatIds
        /\ documents = <<>>
        /\ outcome # "returned"

\* the first line of the entry, and the lines after it
FirstLine == SplitLines(Strip(content))[1]
RestLines == Tail(SplitLines(Strip(content)))

\* the first line is  TS LEVEL  or  TS [LEVEL] , then an optional [Component],
\* then a message, with single spaces between the parts
LevelAt == IF FirstLine[5] = "[" THEN 6 ELSE 5
AfterLevel == IF FirstLine[5] = "[" THEN 8 ELSE 6
ComponentGiven ==
    /\ Len(FirstLine) >= AfterLevel + 5
    /\ FirstLine[AfterLevel + 1] = "[" /\ FirstLine[AfterLevel + 3] = "]"
    /\ FirstLine[AfterLevel + 4] = SP
GenericForm ==
    /\ Len(FirstLine) >= 7
    /\ IsDate(FirstLine[1]) /\ FirstLine[2] = SP /\ IsTime(FirstLine[3]) /\ FirstLine[4] = SP
    /\ IsUpper(FirstLine[LevelAt])
    /\ FirstLine[5] = "[" => FirstLine[7] = "]"
    /\ Len(FirstLine) > AfterLevel /\ FirstLine[AfterLevel] = SP

\* a line is indented and does not start with a new timestamp
Continuation(line) ==
    /\ line # <<>> /\ IsSpace(line[1]) /\ Strip(line) # <<>>
    /\ ~IsDate(Strip(line)[1])

\* C12: the record of a generic-timestamped entry has the level token as
\* level, the bracketed component or "Unknown", the trimmed rest of the first
\* line as message, and has_exception exactly when an indented continuation
\* line that does not start with a new timestamp follows the first line
C12_StandardFields ==
    (Emitted /\ fmt = "standard" /\ GenericForm) =>
        /\ Record.level = <<FirstLine[LevelAt]>>
        /\ Record.component = IF ComponentGiven THEN <<FirstLine[AfterLevel + 2]>>
                              ELSE <<"Unknown">>
        /\ Record.message = Strip(Slice(FirstLine, IF ComponentGiven THEN AfterLevel + 5
                                                   ELSE AfterLevel + 1, Len(FirstLine)))
        /\ Record.has_exception <=> \E i \in 1..Len(RestLines) : Continuation(RestLines[i])

\* the words a level is made of when it is upper-case
LevelWords == UpperWords \cup {"WARN", "DEBUG", "UNKNOWN"}

\* the pairs of the object a structured-record entry holds
Members == JsonLoads(Strip(content)).members

\* C13: in every record, whatever the format, level is a non-empty upper-case
\* string, and it is "UNKNOWN" when the entry names no level (a structured
\* record with none of the level keys)
C13_LevelNonEmptyUpper ==
    Emitted =>
        /\ Record.level # <<>>
        /\ \A i \in 1..Len(Record.level) : Record.level[i] \in LevelWords
        /\ (fmt = "json" /\ \A k \in {"level", "severity", "log_level"} : ~HasKey(Members, k)) =>
               Record.level = <<"UNKNOWN">>

\* the timestamp value of the object, by the alias order, "" when there is none
TimestampValue ==
    Get(Members, "timestamp", Get(Members, "time", Get(Members, "@timestamp", JStr(<<>>))))

\* the value is a text in one of the layouts the extractor knows
KnownLayout(v) == v.typ = "str" /\ JsonTsVal(v.val) # None

\* C14: the structured-record extractor rejects exactly the lines that do not
\* parse as an object; a line that parses as an object yields a record
\* whatever its values are, and when its timestamp is missing, malformed or in
\* no known layout the record carries the wall-clock time of the call
C14_JsonRejectsOnlyUnparsable ==
    (pc = "done" /\ fmt = "json") =>
        /\ outcome = "returned"
        /\ documents = <<>> <=> ~JsonLoads(Strip(content)).dict
        /\ (documents # <<>> /\ ~KnownLayout(TimestampValue)) =>
               Record.timestamp_unix = now

\* the value written for key k in the object (the last one, when k is repeated)
ValueOf(k) == JVal(Members[Max({j \in 1..Len(Members) : JKey(Members[j]) = k})])

\* the value of the first key of the list that the object has, default when it
\* has none of them
RECURSIVE FirstAlias(_, _)
FirstAlias(keys, default) ==
    IF keys = <<>> THEN default
    ELSE IF HasKey(Members, Head(keys)) THEN ValueOf(Head(keys))
    ELSE FirstAlias(Tail(keys), default)

\* C15: the structured-record extractor takes timestamp, level, message and
\* component from the first alias the object has, in the orders
\* timestamp|time|@timestamp, level|severity|log_level, message|msg,
\* component|service|logger; the level is upper-cased, and it is "UNKNOWN"
\* when the object has none of the level aliases
C15_FirstAliasWins ==
    (Emitted /\ fmt = "json") =>
        /\ FirstAlias(<<"timestamp", "time", "@timestamp">>, <<>>) # <<>> =>
               Record.timestamp = FirstAlias(<<"timestamp", "time", "@timestamp">>, <<>>)
        /\ Record.level = Upper(FirstAlias(<<"level", "severity", "log_level">>, <<"UNKNOWN">>))
        /\ Record.message = FirstAlias(<<"message", "msg">>, <<>>)
        /\ Record.component = FirstAlias(<<"component", "service", "logger">>, <<"Unknown">>)

\* an object with severity and no level, and one with both whose level wins
C15_Witness ==
    /\ Emitted /\ fmt = "json"
    /\ HasKey(Members, "severity")
    /\ \/ ~HasKey(Members, "level") /\ Record.level = <<"WARN">>
       \/ HasKey(Members, "level") /\ Record.level = <<"INFO">>

\* the calendar year of the wall clock when the entry is processed
CurrentYear == FromTimestamp(now).year

\* the instant the timestamp text of the record names in year y
InstantIn(y) ==
    DayStart(y, Record.month, Record.day)
        + TimeVal(Record.timestamp[Len(Record.timestamp)])[1] * 3600
        + TimeVal(Record.timestamp[Len(Record.timestamp)])[2] * 60
        + TimeVal(Record.timestamp[Len(Record.timestamp)])[3]

\* C16: a host-process record carries the current calendar year unless its
\* instant would then be later than the processing time, and the previous
\* year in that case; so its year is the current one or the one before, and
\* its timestamp is never later than the processing time
C16_SyslogYearInference ==
    (Emitted /\ fmt = "syslog") =>
        /\ Record.year = IF InstantIn(CurrentYear) > now THEN CurrentYear - 1 ELSE CurrentYear
        /\ Record.year \in {CurrentYear, CurrentYear - 1}
        /\ Record.timestamp_unix = InstantIn(Record.year)
        /\ Record.timestamp_unix <= now

\* an entry of 31 December processed earlier in the year: the year before
C16_Witness ==
    /\ Emitted /\ fmt = "syslog"
    /\ Record.month = <<"December">> /\ Record.day = 31
    /\ Record.year = CurrentYear - 1

\* the entry is stamped "Jan 1 00:00:00" and is processed in December
JanuaryInDecember ==
    /\ Emitted /\ fmt = "syslog"
    /\ Record.timestamp = <<"Jan", SP, "1", SP, "00:00:00">>
    /\ FromTimestamp(now).month = 12

\* C17: an entry stamped "Jan 1 00:00:00" that is processed in December gets
\* the year before the current one
C17_JanuaryInDecemberRollsBack ==
    JanuaryInDecember => Record.year = CurrentYear - 1

\* C17, as the code has it: an entry stamped "Jan 1 00:00:00" that is
\* processed in December gets the current year, since 1 January of the
\* current year is not later than the processing time; an entry stamped
\* "Dec 31 23:59:59" that is processed earlier in the year gets the year before
C17_JanuaryInDecemberKeepsYear ==
    /\ JanuaryInDecember => Record.year = CurrentYear
    /\ (/\ Emitted /\ fmt = "syslog"
        /\ Record.timestamp = <<"Dec", SP, "31", SP, "23:59:59">>
        /\ now < Timestamp(DateTime(CurrentYear, 12, 31, 23, 59, 59, FALSE, 0))) =>
           Record.year = CurrentYear - 1

\* "Jan 1 00:00:00" processed in the last second of December
C17_Witness ==
    /\ JanuaryInDecember
    /\ FromTimestamp(now).day = 31
    /\ Record.year = CurrentYear
    /\ Record.timestamp_unix < now

\* the status codes of the samples, by leading digit
StatusFive == {<<"503">>, <<"5">>}
StatusFour == {<<"404">>}

\* C18: the level of a web-access record follows from the leading digit of
\* its status alone, 5 giving ERROR, 4 giving WARN and anything else INFO;
\* its component is the constant label and has_exception is false
C18_ApacheLevelByStatus ==
    (Emitted /\ fmt = "apache") =>
        /\ Record.level = IF Record.status \in StatusFive THEN <<"ERROR">>
                          ELSE IF Record.status \in StatusFour THEN <<"WARN">>
                          ELSE <<"INFO">>
        /\ Record.component = <<"Apache">>
        /\ Record.has_exception = FALSE

\* a record of status 404
C18_Witness ==
    /\ Emitted /\ fmt = "apache"
    /\ Record.status = <<"404">>
    /\ Record.level = <<"WARN">>

\* the Python type of the value written for key k in the object
TypeOf(k) == JType(Members[Max({j \in 1..Len(Members) : JKey(Members[j]) = k})])

\* C19: merging the extras leaves every canonical field of the record as the
\* extractor computed it, also when the object has a top-level key of the same
\* name, and every extra copied from the object is a string, a number or a
\* boolean, never a nested structure or null
C19_ExtrasKeepCanonical ==
    Emitted =>
        /\ CanonicalKeys \subseteq DOMAIN Record
        /\ Record.raw = Strip(content)
        /\ OnDay(Record.timestamp_unix + ZoneHours(Record.timestamp_iso) * 3600,
                 DayStart(Record.year, Record.month, Record.day))
        /\ Record.message_preview = TakeChars(Record.message, PreviewLen)
        /\ fmt = "json" =>
               /\ Record.level = Upper(FirstAlias(<<"level", "severity", "log_level">>,
                                                  <<"UNKNOWN">>))
               /\ Record.message = FirstAlias(<<"message", "msg">>, <<>>)
               /\ Record.component = FirstAlias(<<"component", "service", "logger">>,
                                                <<"Unknown">>)
               /\ Record.has_exception =
                      (\E k \in {"error", "exception", "stack", "stacktrace"} : HasKey(Members, k))
               /\ \A k \in (DOMAIN Record) \ CanonicalKeys :
                      /\ HasKey(Members, k)
                      /\ TypeOf(k) \in {"str", "int", "float", "bool"}
                      /\ Record[k] = ValueOf(k)

\* an object with keys named year and raw, scalars, a nested value and a null
C19_Witness ==
    /\ Emitted /\ fmt = "json"
    /\ HasKey(Members, "year") /\ HasKey(Members, "raw")
    /\ Record.year # 1999
    /\ "ok" \in DOMAIN Record /\ "host" \in DOMAIN Record
    /\ HasKey(Members, "nested") /\ "nested" \notin DOMAIN Record
    /\ HasKey(Members, "nul") /\ "nul" \notin DOMAIN Record

\* process_logs run by itself from entry i on: the documents it returns
RECURSIVE RunAlone(_, _, _, _, _)
RunAlone(es, i, f, clock, docs) ==
    IF i > Len(es) THEN docs
    ELSE IF Strip(es[i].text) = <<>> THEN RunAlone(es, i + 1, f, clock, docs)
    ELSE IF parse_log_entry(es[i].text, f, clock).kind = "raise" THEN docs
    ELSE IF parse_log_entry(es[i].text, f, clock).kind = "none"
         THEN RunAlone(es, i + 1, f, clock, docs)
    ELSE RunAlone(es, i + 1, f, clock, Append(docs, parse_log_entry(es[i].text, f, clock).md))

\* the format process_logs works with when it runs by itself
FormatAlone ==
    IF format_id = "" \/ format_id \notin FormatIds THEN detect_log_format(content)
    ELSE format_id

\* C20: no step of detection, splitting or extraction writes LOG_FORMATS or
\* FORMAT_PROCESSORS, and whatever the interleaving of a process_logs call with
\* a parse_log_entry call of another caller, each call returns what it returns
\* when it runs by itself (at the same wall-clock time)
C20_CallsDoNotInterfere ==
    /\ registry = FormatOrder
    /\ pc = "done" =>
           /\ outcome = "returned"
           /\ documents = IF file_ok
                          THEN RunAlone(SplitEntries(FormatAlone, content), 1, FormatAlone, now,
                                        <<>>)
                          ELSE <<>>
    /\ (peer # <<>> /\ peer.pc = "done") =>
           LET r == parse_log_entry(peer.content, peer.format_id, now)
           IN  /\ peer.outcome = IF r.kind = "raise" THEN "exception" ELSE "returned"
               /\ peer.documents = IF r.kind = "ok" THEN <<r.md>> ELSE <<>>

\* both calls are over: the other caller looked up an unregistered id and got a
\* document, process_logs detected the format and returned two documents
C20_Witness ==
    /\ peer # <<>> /\ peer.pc = "done" /\ peer.format_id = "nginx" /\ peer.documents # <<>>
    /\ pc = "done" /\ Len(documents) = 2 /\ consulted

PrefixOfLength(p, m, n) ==
    IF CharLen(m) <= n THEN p = m
    ELSE \E k \in 0..(Len(m) - 1) :
            /\ CharLen(SubSeq(m, 1, k)) <= n
            /\ CharLen(SubSeq(m, 1, k + 1)) > n
            /\ IF CharLen(SubSeq(m, 1, k)) = n
               THEN p = SubSeq(m, 1, k)
               ELSE /\ Len(p) = k + 1
                    /\ SubSeq(p, 1, k) = SubSeq(m, 1, k)
                    /\ p[k + 1] \notin {m[k + 1]} \ {PadPart}
                    /\ p[k + 1] \in {PadPart, Fragment}

\* C22: in every record of every format message_preview is the prefix of
\* message of min(len(message), 50) characters; an empty or short message
\* gives a preview equal to it and no failure
C22_PreviewIsPrefix ==
    Emitted =>
        /\ PrefixOfLength(Record.message_preview, Record.message, PreviewLen)
        /\ CharLen(Record.message_preview) <= PreviewLen
        /\ outcome = "returned"

\* a message of more than 50 characters, cut inside a token or at a token's end
C22_Witness ==
    /\ Emitted
    /\ CharLen(Record.message) > PreviewLen
    /\ Record.message_preview # Record.message
    /\ Record.message_preview # <<>>


(***************************************************************************)
(* The boundary split, stated on Spec                                      *)
(***************************************************************************)
\* the texts of the fragments, one after the other
RECURSIVE Concatenated(_)
Concatenated(es) == IF es = <<>> THEN <<>> ELSE Head(es).text \o Concatenated(Tail(es))

\* the split of a pattern-based format has just been made
SplitMade == pc = "loop" /\ idx = 1 /\ fmt # "json"

\* C23: the fragments of the boundary split of a pattern-based format,
\* concatenated in order, are the text read: each fragment starts where the
\* one before it ends, and every fragment after the first starts with the
\* text of a boundary
C23_SplitConsumesNothing ==
    SplitMade =>
        /\ Concatenated(entries) = content
        /\ \A i \in 1..Len(entries) :
              /\ entries[i].start = 1 + Len(Concatenated(SubSeq(entries, 1, i - 1)))
              /\ i > 1 => /\ entries[i].text # <<>>
                          /\ Boundary(fmt, content, entries[i].start)

\* a text with two boundaries after some leading text
C23_Witness ==
    /\ SplitMade
    /\ Len(entries) >= 3
    /\ entries[2].text # <<>>
    /\ entries[1].text # <<>>


(***************************************************************************)
(* Level and component of a host-process record, stated on SpecEntry       *)
(***************************************************************************)
\* the keywords that the lower-case form of a token holds
KeywordsOf(t) ==
    CASE t \in {"ERROR", "error", "terror"} -> {"error"}
      [] t \in {"fatal", "Fatal"} -> {"fatal"}
      [] t = "critical" -> {"critical"}
      [] t \in {"warn", "WARN", "warning", "Warning", "warned"} -> {"warn"}
      [] OTHER -> {}

\* the message of the record holds one of the keywords, in any case
MessageHolds(kws) ==
    \E i \in 1..Len(Record.message) : KeywordsOf(Record.message[i]) \cap kws # {}

\* the level of the record is the one the keywords of its message give
SyslogLevelByKeyword ==
    Record.level = IF MessageHolds({"error", "fatal", "critical"}) THEN <<"ERROR">>
                   ELSE IF MessageHolds({"warn"}) THEN <<"WARN">>
                   ELSE <<"INFO">>

\* the process name of "process[pid]": the text before the bracket
ProcessName == Slice(Record.process, 1, Find(Record.process, 1, "[") - 1)

\* C25: the level of an accepted host-process entry is ERROR when its message
\* holds error, fatal or critical in any case, else WARN when it holds warn,
\* else INFO, and its component is the process name of the entry
C25_KeywordLevelAndProcessName ==
    (Emitted /\ fmt = "syslog") =>
        /\ SyslogLevelByKeyword
        /\ Record.component = ProcessName

\* the level part by itself, on every accepted host-process entry
SyslogLevelHolds == (Emitted /\ fmt = "syslog") => SyslogLevelByKeyword

\* an entry "cron[7]: terror warned": both kinds of keyword inside longer
\* words, and a pid after the process name
SyslogProcessWithPid ==
    /\ Emitted /\ fmt = "syslog"
    /\ MessageHolds({"error"}) /\ MessageHolds({"warn"})
    /\ Record.level = <<"ERROR">>
    /\ Record.component = <<"cron", "[", "7", "]">>
    /\ Record.pid = None


(***************************************************************************)
(* The part of the text that detection reads, stated on Spec               *)
(***************************************************************************)
\* the text of a source
TextOf(src) == Join([i \in 1..Len(src) |-> Pool[src[i]]])

\* the number of whole tokens of s, counted from index i, that lie within
\* the n characters that start at token i
RECURSIVE TokensWithinFrom(_, _, _)
TokensWithinFrom(s, i, n) ==
    IF i > Len(s) \/ Width(s[i]) > n THEN i - 1
    ELSE TokensWithinFrom(s, i + 1, n - Width(s[i]))

\* the number of whole tokens of s that lie within its first n characters
TokensWithin(s, n) == TokensWithinFrom(s, 1, n)

\* the first n characters of s: the whole tokens within them, and the token
\* they end inside of, if any
FirstChars(s, n) ==
    LET k == TokensWithin(s, n)
    IN  [whole |-> SubSeq(s, 1, k),
         cut |-> IF Len(s) > k /\ CharLen(SubSeq(s, 1, k)) < n THEN <<s[k + 1]>> ELSE <<>>]

\* detection has just been made for the text read, in the first call and
\* before the wall clock moved
DetectionMade == pc = "split" /\ consulted /\ run = 1 /\ ticks = 0

\* the sources whose first entry has, as far as it goes, the tokens the text
\* read has within its first SampleLimit characters; the text of any other
\* source differs from the text read within those characters
SameStart ==
    LET k == TokensWithin(content, SampleLimit)
    IN  {o \in Sources :
            IF o = <<>> THEN content = <<>>
            ELSE LET m == Min({Len(Pool[o[1]]), k})
                 IN  SubSeq(Pool[o[1]], 1, m) = SubSeq(content, 1, m)}

\* the lines of the first SampleLimit characters of the text, stripped
PrefixLines == SplitLines(Strip(SubSeq(content, 1, TokensWithin(content, SampleLimit))))

\* the score recorded for the structured-record format
RecordedJsonScore ==
    LET at == {i \in 1..Len(format_scores) : format_scores[i].id = "json"}
    IN  IF at = {} THEN None ELSE Some(format_scores[Min(at)].score)

\* C26: two texts with the same first 5000 characters get the same format id
\* from detect_log_format whatever follows them, and the score of the
\* structured-record format counts lines among the first 10 of the prefix only
\* (a text of fewer than 5000 characters has its first 5000 characters in
\* common with no text but itself)
C26_DetectionReadsPrefixOnly ==
    DetectionMade =>
        /\ fmt = detect_log_format(content)
        /\ CharLen(content) >= SampleLimit =>
              LET mine == FirstChars(content, SampleLimit)
              IN  \A other \in SameStart :
                     FirstChars(TextOf(other), SampleLimit) = mine =>
                         detect_log_format(TextOf(other)) = fmt
        /\ RecordedJsonScore # None =>
              /\ RecordedJsonScore[1] <= SampleLines
              /\ RecordedJsonScore[1] =
                    Cardinality({i \in 1..Len(PrefixLines) :
                                    i <= SampleLines /\ JsonLoads(Strip(PrefixLines[i])).ok})

\* a text of more than 5000 characters with no entry in its prefix and an
\* entry of another format after it, and another text with the same prefix
C26_Witness ==
    /\ DetectionMade
    /\ CharLen(content) > SampleLimit
    /\ fmt = "standard"
    /\ \A i \in 1..Len(format_scores) : format_scores[i].score = 0
    /\ RegexScore("apache", content) > 0
    /\ \E other \in SameStart :
          /\ TextOf(other) # content
          /\ FirstChars(TextOf(other), SampleLimit) = FirstChars(content, SampleLimit)

\* a text of eleven lines that parse, of which ten are counted
ElevenLinesTenCounted ==
    /\ DetectionMade
    /\ RecordedJsonScore = Some(SampleLines)
    /\ Len(SplitLines(Strip(content))) > SampleLines


(***************************************************************************)
(* Chunked and whole processing, stated on SpecChunks                      *)
(***************************************************************************)
\* the lists of the calls from the i-th on, one after the other
RECURSIVE ListsFrom(_)
ListsFrom(i) == IF i > Len(results) THEN <<>> ELSE results[i].documents \o ListsFrom(i + 1)

\* the index in the whole text where the chunk of call i starts
RECURSIVE ChunkStart(_)
ChunkStart(i) == IF i <= 2 THEN 1 ELSE ChunkStart(i - 1) + Len(chunks[i - 1])

\* an entry of format f starts at index p of text s
EntryStartsAt(f, s, p) ==
    IF f = "json" THEN p = 1 \/ s[p - 1] = NL ELSE Boundary(f, s, p)

\* every chunk begins where an entry of the format of the whole text starts
ChunksAtBoundaries ==
    \A i \in 2..Len(chunks) : EntryStartsAt(results[1].fmt, chunks[1], ChunkStart(i))

\* the whole text and all its chunks have been processed
AllCallsMade == pc = "end" /\ Len(results) = Len(chunks)

\* C24: when every chunk begins at an entry boundary, the lists returned for
\* the chunks, one after the other, are the list returned for the whole text,
\* with a registered format id and with the format detected in each call
C24_ChunkedEqualsWhole ==
    (AllCallsMade /\ ChunksAtBoundaries) => ListsFrom(2) = results[1].documents

\* the same for the calls with a registered format id in which no exception
\* reached the except clause of process_logs
ChunkedEqualsWholeRegistered ==
    (/\ AllCallsMade /\ ChunksAtBoundaries /\ format_id \in FormatIds
     /\ \A i \in 1..Len(results) : ~results[i].caught) =>
        ListsFrom(2) = results[1].documents

\* a registered id, chunks at entry boundaries, and the call on the whole
\* text abandoned at an entry after which a chunk starts
ChunkAfterAbandonedEntry ==
    /\ AllCallsMade /\ ChunksAtBoundaries /\ format_id \in FormatIds
    /\ results[1].caught
    /\ Len(ListsFrom(2)) > Len(results[1].documents)

\* chunks at entry boundaries, and a chunk detected as another format than
\* the whole text
ChunkDetectedOtherwise ==
    /\ AllCallsMade /\ ChunksAtBoundaries
    /\ format_id \notin FormatIds
    /\ \E i \in 2..Len(results) : results[i].fmt # results[1].fmt
    /\ ListsFrom(2) # results[1].documents


(***************************************************************************)
(* The singleton of vector_store.py, stated on SpecStore                   *)
(***************************************************************************)
\* all callers that received an instance received the same one
SameInstance ==
    \A t \in DOMAIN got : \A u \in DOMAIN got : (got[t] # 0 /\ got[u] # 0) => got[t] = got[u]

\* C27: whatever the interleaving of the calls of get_vector_store, all callers
\* receive the same instance, the body of __init__ runs once, and a database
\* handle a caller obtained is the one the instance holds ever after
C27_InitialisedOnce ==
    /\ SameInstance
    /\ init_runs <= 1
    /\ \A t \in DOMAIN handle : handle[t] # 0 => handle[t] = vectordb

\* two callers hold the same instance and different databases
TwoDatabases ==
    /\ SameInstance
    /\ \E t \in DOMAIN handle : \E u \in DOMAIN handle :
          /\ tpc[t] = "done" /\ tpc[u] = "done"
          /\ handle[t] # 0 /\ handle[u] # 0 /\ handle[t] # handle[u]


(***************************************************************************)
(* Level filters and the levels stored, stated on SpecFilter               *)
(***************************************************************************)
\* the severity class of the record made: by the status of a web-access
\* entry, by the keywords of the message of a host-process entry
RecordClass ==
    IF fmt = "apache"
    THEN (IF Record.status \in StatusFive THEN "error"
          ELSE IF Record.status \in StatusFour THEN "warning" ELSE "info")
    ELSE (IF MessageHolds({"error", "fatal", "critical"}) THEN "error"
          ELSE IF MessageHolds({"warn"}) THEN "warning" ELSE "info")

\* the words that ask for a severity class; an exception is an error
WordsOfClass(c) ==
    CASE c = "error" -> {"errors", "exception"}
      [] c = "warning" -> {"warnings"}
      [] c = "info" -> {"info"}
      [] c = "debug" -> {"debug"}

\* the severity classes the words of the query ask for
AskedClasses ==
    {c \in {"error", "warning", "info", "debug"} :
        \E i \in 1..Len(query) : query[i] \in WordsOfClass(c)}

\* the record made passes a filter on the level field
Passes(f) == \E l \in f.any : Record.level = <<l>>

\* f is a filter on the level field
OnLevel(f) == f # Unset /\ f # None /\ f[1].field = "level"

\* the record is made, both filters are built, and the query asks for class c alone
FilterCase(c) ==
    /\ Emitted
    /\ metadata_filter # Unset /\ level_filter # Unset
    /\ AskedClasses = {c}

\* C28: for a query that asks for one severity class, the level filter that
\* build_metadata_filter and extract_level_from_query build passes a
\* web-access or host-process record exactly when the record is of that class
C28_FilterLevelIsStoredLevel ==
    \A c \in {"error", "warning", "info"} :
        FilterCase(c) =>
            /\ OnLevel(metadata_filter) => (Passes(metadata_filter[1]) <=> RecordClass = c)
            /\ OnLevel(level_filter) => (Passes(level_filter[1]) <=> RecordClass = c)

\* the same for the filter of extract_level_from_query alone
ExtractedLevelIsStoredLevel ==
    \A c \in {"error", "warning", "info"} :
        (FilterCase(c) /\ OnLevel(level_filter)) =>
            (Passes(level_filter[1]) <=> RecordClass = c)

\* the same for the error and info filters of build_metadata_filter
ErrorAndInfoFiltersPass ==
    \A c \in {"error", "info"} :
        (FilterCase(c) /\ OnLevel(metadata_filter)) =>
            (Passes(metadata_filter[1]) <=> RecordClass = c)

\* a query for warnings and a 404 record: the filter of
\* extract_level_from_query passes it, the one of build_metadata_filter does not
WarningRecordFilteredOut ==
    /\ FilterCase("warning")
    /\ fmt = "apache" /\ RecordClass = "warning"
    /\ OnLevel(metadata_filter) /\ ~Passes(metadata_filter[1])
    /\ OnLevel(level_filter) /\ Passes(level_filter[1])


(***************************************************************************)
(* The tailing of the monitored file, stated on SpecTail                   *)
(***************************************************************************)
\* no byte was passed to process_logs more than once
NoByteTwice == \A i \in 1..Len(passed) : passed[i] <= 1

\* between two callbacks every byte of text appended below the position was
\* passed, and no byte at or above it was
PassedUpToPosition ==
    (monitoring_active /\ cpc = "idle") =>
        \A i \in 1..Len(file) :
            /\ (i <= last_log_position /\ file[i] = "text") => passed[i] >= 1
            /\ i > last_log_position => passed[i] = 0

\* a callback that found the file shorter than the position reads from 0
ReadsFromStartWhenShorter ==
    cpc \in {"read", "process"} => last_log_position <= file_size

\* C29: as long as the file is not truncated, last_log_position is the number
\* of bytes passed to process_logs: no byte is passed twice and none below the
\* position is skipped, whatever the interleaving of appends and callbacks;
\* and a callback that finds the file shorter than the position reads it
\* again from the start
C29_EveryByteOnce ==
    /\ ~truncated => (NoByteTwice /\ PassedUpToPosition)
    /\ ReadsFromStartWhenShorter

\* when the callback finds the size below the position, the position becomes
\* 0 and the file, unless it is empty, is read
TruncationResets ==
    [][(/\ cpc = "check" /\ cpc' # "check"
        /\ last_log_position # Absent /\ file_size < last_log_position) =>
          (last_log_position' = 0 /\ cpc' = IF file_size = 0 THEN "idle" ELSE "read")]_vars

\* without truncation, a byte appended while a callback ran was passed twice
ByteProcessedTwice ==
    /\ ~truncated
    /\ cpc = "idle"
    /\ \E i \in 1..Len(passed) : passed[i] = 2

\* a truncated file that grew again is read from its first byte
ReadAgainFromStart ==
    /\ truncated
    /\ cpc = "process"
    /\ new_content.from = 0
    /\ new_content.bytes # <<>>


\* the roles of the messages of the chat, in order
Roles == [i \in 1..Len(chat_history) |-> chat_history[i].role]

\* the last message is a question that has no reply yet
LastIsUnanswered ==
    /\ chat_history # <<>>
    /\ chat_history[Len(chat_history)].role = "user"

\* user, assistant, user, ... starting with user
Alternates ==
    \A i \in 1..Len(chat_history) :
        Roles[i] = IF i % 2 = 1 THEN "user" ELSE "assistant"

\* every reply follows its question, and no question has two replies
AnsweredAtMostOnce ==
    \A i \in 1..Len(chat_history) :
        Roles[i] = "assistant" =>
            /\ i > 1
            /\ chat_history[i - 1] = UserMessage(chat_history[i].content)
            /\ \A j \in 1..Len(chat_history) :
                   chat_history[j] = chat_history[i] => j = i

\* no question the submit step refused is in the chat
RefusedNotAppended ==
    \A i \in 1..Len(chat_history) : chat_history[i].content \notin refused

\* C30: in the chat tab, at the end of every script run awaiting_response is
\* true exactly when pending_user_query is set, and that is exactly when the
\* last message of chat_history is a user message with no reply yet; a
\* question typed while awaiting_response is true is not appended, every
\* accepted question gets at most one assistant message, and chat_history
\* alternates user, assistant, user, ... starting with user.
C30_ChatAlternates ==
    /\ rpc = "idle" =>
           /\ awaiting_response = (pending_user_query # None)
           /\ awaiting_response = LastIsUnanswered
           /\ awaiting_response =>
                  pending_user_query[1] = chat_history[Len(chat_history)].content
    /\ RefusedNotAppended
    /\ AnsweredAtMostOnce
    /\ Alternates

\* a run ended after two questions were answered and one, typed while the
\* first awaited its answer, was refused
C30_Witness ==
    /\ rpc = "idle"
    /\ Len(chat_history) = 4
    /\ refused # {}
    /\ ~awaiting_response

\* a run ended with a question awaiting its answer after the answer failed
C30_AwaitingAfterFailure ==
    /\ rpc = "idle"
    /\ awaiting_response
    /\ refused # {}
    /\ Len(chat_history) = 3
====
